---- MODULE Spec2Model ----
(***************************************************************************)
(* A state-machine model of webtalk's model-asset manager (tts-models.js,  *)
(* whisper-models.js, download-lock.js) and of the lazy engine load of     *)
(* server-tts.js.                                                          *)
(*                                                                         *)
(* Node runs the program on one thread: every action below is one          *)
(* synchronous run of JavaScript, from an event (a call, an HTTP response, *)
(* a timer, a promise continuation) to the next await or return.           *)
(***************************************************************************)
EXTENDS Integers, Sequences, FiniteSets, TLC

(***************************************************************************)
(* Bounds of the model.                                                    *)
(***************************************************************************)
\* ensure calls made in one run
MaxCalls == 2
\* assets that are missing or truncated when the run starts
MaxFailing == 2
\* redirects the server answers within one downloadFile chain
MaxRedirects == 1
\* length of a truncated body (and of a pre-placed truncated file), in bytes
ShortLen == 1024
\* ensureLoaded calls made in one run, the one at module load included
MaxLoadCalls == 4
\* /tts-stream requests served in one run
MaxRequests == 3
\* sentences in the text of one request
MaxSentences == 3
\* 'generate' messages sent to the worker in one run
MaxGenerates == 2
\* the latest frame at which the backbone signals EOS for a short text
MaxEos == 13
\* .wav files in the voice directories
NumVoices == 17
\* getVoiceEmbedding calls in a short run
MaxEmbedCalls == 4
\* getVoiceEmbedding calls awaiting the voice encoder at one time
MaxEncoding == 2
\* encodeVoiceAudio rejections in one run
MaxEncodeFailures == 1
\* characters in a text handed to splitSentences
MaxTextLen == 4
\* samples in an audio buffer handed to the WAV encoder
MaxSamples == 2
\* elements of a state tensor
MaxElements == 2
\* requests that reach the development server in one run
MaxHttp == 3
\* changes of the watched files in one run
MaxReloads == 2
\* timers one drain awaits before its time is up
MaxPolls == 3

(***************************************************************************)
(* Program constants.                                                      *)
(***************************************************************************)
\* downloadFile(url, dest, maxRetries = 3, attempt = 0)
MaxRetries == 3
KB == 1024
MB == 1024 * 1024

\* a path that does not exist (fs.existsSync false, fs.statSync throws)
Absent == -1
\* tts-worker.js
MAX_FRAMES == 500
MAX_LSD == 10
DRAIN_INTERVAL == 10
MAX_DRAIN_INTERVAL == 100
\* `latents.length >= 12`: the frames decoded as one chunk
DecodeEvery == 12
\* the backbone declares the state inputs state_0 .. state_17
NumStates == 18
\* isFileCorrupted(filePath, minSizeBytes = null)
Null == -1
\* no entry in a Map of download-lock.js; a null loadPromise
NoPromise == 0

\* TTS_FILES.  minBytes is nominal * 0.8, a fraction of a byte; min10 is
\* minBytes * 10 = nominal * 8, so that size < minBytes <=> size * 10 < min10.
TTS_FILES ==
  << [name |-> "mimi_encoder.onnx",      min10 |-> 73 * MB * 8],
     [name |-> "text_conditioner.onnx",  min10 |-> 16 * MB * 8],
     [name |-> "flow_lm_main_int8.onnx", min10 |-> 76 * MB * 8],
     [name |-> "flow_lm_flow_int8.onnx", min10 |-> 10 * MB * 8],
     [name |-> "mimi_decoder_int8.onnx", min10 |-> 23 * MB * 8],
     [name |-> "tokenizer.model",        min10 |-> 59 * KB * 8] >>

\* TTS_WEB_FILES: downloadTTSWebFiles only tests that the file exists
TTS_WEB_FILES ==
  << [name |-> "sentencepiece.js", min10 |-> Null] >>

\* the list checkTTSModelExists walks
mainFiles ==
  << [name |-> "mimi_encoder.onnx",      min10 |-> 73 * MB * 8],
     [name |-> "flow_lm_main_int8.onnx", min10 |-> 76 * MB * 8],
     [name |-> "mimi_decoder_int8.onnx", min10 |-> 23 * MB * 8] >>

WHISPER_REQUIRED_FILES ==
  << "config.json", "preprocessor_config.json", "tokenizer.json",
     "tokenizer_config.json", "vocab.json", "merges.txt",
     "onnx/encoder_model.onnx", "onnx/decoder_model_merged.onnx",
     "onnx/decoder_model_merged_q4.onnx" >>

\* The three revisions of the asset manager in the repository:
\*   "hf"      ensureTTSModels downloading from HF_TTS_BASE (with onProgress)
\*   "pkg"     ensureTTSModels copying from the sttttsmodels package first and
\*             fetching the web files last
\*   "whisper" ensureModel(modelName) of whisper-models.js
Variants == {"hf", "pkg", "whisper"}

\* the assets the ensure call of a variant walks, in order; the loop of
\* downloadWhisperModel calls isFileCorrupted without a minimum
Files(v) ==
  IF v = "hf" THEN TTS_FILES
  ELSE IF v = "pkg" THEN TTS_FILES \o TTS_WEB_FILES
  ELSE [i \in 1..Len(WHISPER_REQUIRED_FILES) |->
          [name |-> WHISPER_REQUIRED_FILES[i], min10 |-> Null]]

Names(v) == { Files(v)[i].name : i \in 1..Len(Files(v)) }

\* the size of the complete asset i: file.minBytes / 0.8 for a TTS asset, the
\* '4MB' of the web file, and for a whisper file the least size
\* checkWhisperModelExists accepts (a small text file where it asks for none)
Nominal(v, i) ==
  IF v = "whisper"
  THEN IF WHISPER_REQUIRED_FILES[i] = "onnx/encoder_model.onnx" THEN 40 * MB
       ELSE IF WHISPER_REQUIRED_FILES[i] \in { "onnx/decoder_model_merged.onnx",
                                               "onnx/decoder_model_merged_q4.onnx" }
            THEN 100 * MB
            ELSE ShortLen
  ELSE IF i <= Len(TTS_FILES) THEN TTS_FILES[i].min10 \div 8
       ELSE 4 * MB

\* const lockKey = 'tts-models' / `whisper-${modelName}`, for the default
\* config.defaultWhisperModel
lockKey(v) ==
  IF v = "whisper" THEN "whisper-onnx-community/whisper-base" ELSE "tts-models"

Keys == { lockKey(v) : v \in Variants }

(***************************************************************************)
(* State.                                                                  *)
(***************************************************************************)
VARIABLES
  variant,          \* the revision and asset set this run exercises
  fs,               \* path -> size in bytes, or Absent
  pkg,              \* the sttttsmodels package: installed, and the size of each file
  downloadLocks,    \* download-lock.js: key -> promise whose resolve/reject is kept
  downloadPromises, \* download-lock.js: key -> pending promise
  promises,         \* lock promises created so far: "pending" | "ok" | "err"
  calls,            \* ensure calls made so far, in call order
  pc,               \* where the running async body of the ensure call is suspended
  exists,           \* the value the exists check returned to that body
  idx,              \* the index in Files(variant) of the download loop
  status,           \* the last status reported (onProgress) for each asset
  dl,               \* the downloadFile chain the loop awaits
  owner,            \* the call (index in calls) whose async body is running, or 0
  failingAtStart,   \* assets failing the predicate when the running call began
  started,          \* downloadFile calls the running call's loop has made, per file
  okBefore          \* an earlier ensure call has resolved

dlVars == << variant, fs, pkg, downloadLocks, downloadPromises, promises, calls,
             pc, exists, idx, status, dl, owner, failingAtStart, started,
             okBefore >>

VARIABLES
  ready,            \* ttsOnnx.isReady()
  loadPromise,      \* server-tts.js loadPromise: a promise, or NoPromise
  loadError,        \* server-tts.js loadError: a message, or "null"
  loads,            \* promises made by ensureLoaded: "pending" | "ok" | a message
  loading,          \* the loadModels invocations in progress (their promises)
  loadCalls         \* ensureLoaded calls made so far, in call order

loadVars == << ready, loadPromise, loadError, loads, loading, loadCalls >>

VARIABLES
  http,             \* the /tts-stream request handleSpeechRoute is serving
  responses,        \* the responses completed so far, as their consumer saw them
  reqBudget         \* /tts-stream requests the clients still send in this run

streamVars == << http, responses, reqBudget >>

VARIABLES
  isGenerating,     \* tts-worker.js isGenerating
  syn,              \* the syntheses started so far, one per 'generate' message
  genBudget,        \* 'generate' messages the page still sends in this run
  eosChoices,       \* the frames at which the backbone may signal EOS in this run
  textChoices       \* the texts the page may ask for in this run

workerVars == << isGenerating, syn, genBudget, eosChoices, textChoices >>

VARIABLES
  voiceCache,       \* server-tts.js voiceCache: the wav paths that have an entry
  encoding,         \* wav path -> getVoiceEmbedding calls awaiting encodeVoiceAudio
  encoderRuns,      \* wav path -> encodeVoiceAudio invocations made for it
  top,              \* the voice files requested so far are 1..top
  embedBudget,      \* getVoiceEmbedding calls still to come in this run
  encodeFailures,   \* encodeVoiceAudio rejections still to come in this run
  encodingLimit     \* calls that may await the voice encoder at one time

voiceVars == << voiceCache, encoding, encoderRuns, top, embedBudget,
                encodeFailures, encodingLimit >>

VARIABLES
  text,             \* the text handed to splitSentences, a sequence of characters
  sentences,        \* what splitSentences returned
  splitBy           \* "none", or the revision of splitSentences that was applied

splitVars == << text, sentences, splitBy >>

VARIABLES
  samples,          \* the float samples handed to the WAV encoder, in 1/65536
  wav,              \* the WAV file the encoder returned
  decoded,          \* the samples decodeWavToFloat32 read back, in 1/65536
  wavPc             \* "idle" | "samples" | "encoded" | "decoded"

wavVars == << samples, wav, decoded, wavPc >>

VARIABLES
  slot,             \* i: the state input state_i that is propagated
  outState,         \* the out_state_i tensor the backbone run returned
  nextState,        \* the state_i tensor kept in flowState for the next run
  propBy            \* "none", or the revision that propagated the state

propVars == << slot, outState, nextState, propBy >>

VARIABLES
  inFlight,         \* persistent-state.js state.requests.inFlight
  requests,         \* the requests that arrived: st is "open" | "finished" |
                    \* "closed"; listening: onEnd is still attached to res;
                    \* events: how many of 'finish' and 'close' res has emitted
  handlers,         \* state.handlers.current: the handlers a request is dispatched to
  reloadPc,         \* "idle" | "sleep" (drain awaits its timer) | "init" (await newInit())
  interval,         \* drain's interval
  polls,            \* timers drain has awaited in this reload
  generation,       \* the latest generation of middleware.js that was loaded
  httpBudget,       \* requests still to arrive in this run
  reloadBudget      \* changes of the watched files still to come in this run

reloadVars == << inFlight, requests, handlers, reloadPc, interval, polls,
                 generation, httpBudget, reloadBudget >>

VARIABLES
  sidecar,          \* part_006 state: process, status, healthy, starting, ...
  procs,            \* the pocket-tts processes spawned so far: st is "alive" |
                    \* "killed" (SIGTERM sent) | "exited"; onExit: start's
                    \* 'exit' listener is attached
  restartTimers,    \* the timeouts of scheduleRestart still pending: [id, delay]
  timerIds,         \* timeouts created so far
  startCalls,       \* start() calls: pc is "adopt" | "wait1" | "wait2" | "done"
  stopped,          \* stop() was called and start() not called by the user since
  startBudget       \* start() calls the user still makes in this run

sidecarVars == << sidecar, procs, restartTimers, timerIds, startCalls, stopped,
                  startBudget >>

VARIABLES
  ttsCache,         \* part_006 ttsCache, in the Map's order: [key, len]
  ttsCacheBytes,    \* part_006 ttsCacheBytes
  ttsInflight,      \* part_006 ttsInflight: key -> the synthesis awaited
  synths,           \* synthesizeAny calls: [key, by, st, len]; by is "call"
                    \* (synthesize) | "stream" (synthesizeStream)
  synCalls,         \* synthesize() calls: [key, from, st, len]; from is 0 for
                    \* a cache hit, else the synthesis whose promise it awaits
  synthBudget       \* synthesize calls and streamed sentences still to come

cacheVars == << ttsCache, ttsCacheBytes, ttsInflight, synths, synCalls,
                synthBudget >>

VARIABLES
  reloadTimer,      \* hot-reload's reloadTimer: 0, or the delay of the timeout
                    \* that is pending
  pendingReload,    \* hot-reload's pendingReload
  callbacks,        \* the reloadCallback calls made: "drain" | "init" | "done"
  changeBudget      \* fs.watch events still to come in this run

watchVars == << reloadTimer, pendingReload, callbacks, changeBudget >>

VARIABLES
  urlPath,          \* req.path of the request serveStatic is handling, as its
                    \* segments
  filePath,         \* path.join(root, urlPath), as its segments
  staticPc          \* "idle" | "stat" (fs.stat pending) | "forbidden" (403) |
                    \* "served" (filePath piped to res) | "next"

staticVars == << urlPath, filePath, staticPc >>

vars == << dlVars, loadVars, streamVars, workerVars, voiceVars, splitVars,
           wavVars, propVars, reloadVars, sidecarVars, cacheVars, watchVars,
           staticVars >>

\* what the asset manager leaves alone
notDL == << loadVars, streamVars, workerVars, voiceVars, splitVars, wavVars,
            propVars, reloadVars, sidecarVars, cacheVars, watchVars,
            staticVars >>

\* what the engine load leaves alone
notLoad == << dlVars, streamVars, workerVars, voiceVars, splitVars, wavVars,
              propVars, reloadVars, sidecarVars, cacheVars, watchVars,
              staticVars >>

\* what the speech routes leave alone
notStream == << dlVars, loadVars, workerVars, voiceVars, splitVars, wavVars,
                propVars, reloadVars, sidecarVars, cacheVars, watchVars,
                staticVars >>

\* what the worker leaves alone
notWorker == << dlVars, loadVars, streamVars, voiceVars, splitVars, wavVars,
                propVars, reloadVars, sidecarVars, cacheVars, watchVars,
                staticVars >>

\* what the voice cache leaves alone
notVoice == << dlVars, loadVars, streamVars, workerVars, splitVars, wavVars,
               propVars, reloadVars, sidecarVars, cacheVars, watchVars,
               staticVars >>

\* what splitSentences leaves alone
notSplit == << dlVars, loadVars, streamVars, workerVars, voiceVars, wavVars,
               propVars, reloadVars, sidecarVars, cacheVars, watchVars,
               staticVars >>

\* what the WAV codec leaves alone
notWav == << dlVars, loadVars, streamVars, workerVars, voiceVars, splitVars,
             propVars, reloadVars, sidecarVars, cacheVars, watchVars,
             staticVars >>

\* what the state propagation leaves alone
notProp == << dlVars, loadVars, streamVars, workerVars, voiceVars, splitVars,
              wavVars, reloadVars, sidecarVars, cacheVars, watchVars,
              staticVars >>

\* what the hot reload leaves alone
notReload == << dlVars, loadVars, streamVars, workerVars, voiceVars,
                splitVars, wavVars, propVars, sidecarVars, cacheVars,
                watchVars, staticVars >>

\* what the sidecar management leaves alone
notSidecar == << dlVars, loadVars, streamVars, workerVars, voiceVars,
                 splitVars, wavVars, propVars, reloadVars, cacheVars,
                 watchVars, staticVars >>

\* what the sidecar's speech cache leaves alone
notCache == << dlVars, loadVars, streamVars, workerVars, voiceVars, splitVars,
               wavVars, propVars, reloadVars, sidecarVars, watchVars,
               staticVars >>

\* what the file watcher leaves alone
notWatch == << dlVars, loadVars, streamVars, workerVars, voiceVars, splitVars,
               wavVars, propVars, reloadVars, sidecarVars, cacheVars,
               staticVars >>

\* what serveStatic leaves alone
notStatic == << dlVars, loadVars, streamVars, workerVars, voiceVars,
                splitVars, wavVars, propVars, reloadVars, sidecarVars,
                cacheVars, watchVars >>

\* phase: "idle" | "get" (request sent) | "stream" (200 received, body piped to
\* dest) | "timer" (backoff pending) | "resolved" | "rejected"; attempt is the
\* parameter of downloadFile; gets, tries (gets that are no redirect
\* follow-up) and waits (the delays of the timers set) record the chain.
Idle == [phase |-> "idle", attempt |-> 0, redirects |-> 0, bodyLen |-> 0,
         delay |-> 0, gets |-> 0, tries |-> 0, waits |-> << >>, err |-> "none"]

(***************************************************************************)
(* whisper-models.js                                                       *)
(***************************************************************************)
\* statSync throws on a missing path; a null minimum accepts every size.
isFileCorrupted(size, min10) ==
  IF size = Absent THEN TRUE
  ELSE min10 # Null /\ size * 10 < min10

RECURSIVE Pow2(_)
Pow2(n) == IF n = 0 THEN 1 ELSE 2 * Pow2(n - 1)

\* Math.pow(2, attempt) * 1000
delayMs(attempt) == Pow2(attempt) * 1000

\* a retry test that is off by one: a fourth attempt is made
retryOnceMore(attempt, maxRetries) == attempt < maxRetries

\* if (attempt < maxRetries - 1) retry after delayMs else reject
retryAllowed(attempt, maxRetries) == attempt < maxRetries - 1

\* A missing model directory holds no file, so the directory test of the
\* source is covered by the test of the encoder.
checkWhisperModelExists(f) ==
  LET encoderPath     == "onnx/encoder_model.onnx"
      decoderPath     == "onnx/decoder_model_merged_q4.onnx"
      decoderFallback == "onnx/decoder_model_merged.onnx"
      hasEncoder == f[encoderPath] # Absent
      hasDecoder == f[decoderPath] # Absent \/ f[decoderFallback] # Absent
      encoderValid == ~ isFileCorrupted(f[encoderPath], 40 * MB * 10)
      decoderValid == \/ isFileCorrupted(f[decoderPath], 100 * MB * 10) = FALSE
                      \/ isFileCorrupted(f[decoderFallback], 100 * MB * 10) = FALSE
  IN  IF ~ hasEncoder \/ ~ hasDecoder THEN FALSE
      ELSE encoderValid /\ decoderValid

(***************************************************************************)
(* download-lock.js                                                        *)
(***************************************************************************)
\* a lock map that is never consulted
neverDownloading(key) == FALSE

isDownloading(key) == downloadPromises[key] # NoPromise

getDownloadPromise(key) == downloadPromises[key]

(***************************************************************************)
(* tts-models.js                                                           *)
(***************************************************************************)
\* A missing directory holds no file, so the directory test of the source is
\* covered by the test of the first main file.
checkTTSModelExists(f) ==
  \A i \in 1..Len(mainFiles) :
    ~ (f[mainFiles[i].name] = Absent
       \/ isFileCorrupted(f[mainFiles[i].name], mainFiles[i].min10))

\* the exists check the ensure call of variant v awaits
checkExists(v, f) ==
  IF v = "whisper" THEN checkWhisperModelExists(f) ELSE checkTTSModelExists(f)

\* the integrity predicate of TTS asset i on file system f:
\* exists(path) and size(path) >= min_bytes
Intact(f, i) == ~ isFileCorrupted(f[TTS_FILES[i].name], TTS_FILES[i].min10)

\* a loop without the `continue` over the files in place
downloadEvery(files, f, i) == i

\* the download loops (downloadTTSModels, downloadTTSWebFiles,
\* downloadWhisperModel) `continue` over the files that exist and are not
\* corrupted; the result is the first index the loop stops at, or one past
\* the end.
RECURSIVE nextToDownload(_, _, _)
nextToDownload(files, f, i) ==
  IF i > Len(files) THEN i
  ELSE IF f[files[i].name] # Absent
          /\ ~ isFileCorrupted(f[files[i].name], files[i].min10)
       THEN nextToDownload(files, f, i + 1)
       ELSE i

\* copyFromSttttsmodels on file system f from asset i on: [ok, fs].  A package
\* that is not installed has no ttsDir; a complete destination is left alone;
\* a file the package lacks ends the copy with false, the copies made so far
\* kept.
RECURSIVE copyFromSttttsmodels(_, _)
copyFromSttttsmodels(f, i) ==
  IF ~ pkg.installed THEN [ok |-> FALSE, fs |-> f]
  ELSE IF i > Len(TTS_FILES) THEN [ok |-> TRUE, fs |-> f]
  ELSE IF f[TTS_FILES[i].name] # Absent
          /\ ~ isFileCorrupted(f[TTS_FILES[i].name], TTS_FILES[i].min10)
       THEN copyFromSttttsmodels(f, i + 1)
  ELSE IF pkg.size[i] = Absent THEN [ok |-> FALSE, fs |-> f]
  ELSE copyFromSttttsmodels([f EXCEPT ![TTS_FILES[i].name] = pkg.size[i]], i + 1)

(***************************************************************************)
(* Initial state: the lock maps are empty, no call has been made, and the  *)
(* models directory holds each asset complete, truncated or not at all.    *)
(***************************************************************************)
fsOf(v, failing, missing) ==
  [n \in Names(v) |->
     LET i == CHOOSE k \in 1..Len(Files(v)) : Files(v)[k].name = n
     IN  IF i \in missing THEN Absent
         ELSE IF i \in failing THEN ShortLen
         ELSE Nominal(v, i)]

InitialFs(v) ==
  UNION { { fsOf(v, S, A) : A \in SUBSET S } :
          S \in { T \in SUBSET (1..Len(Files(v))) : Cardinality(T) <= MaxFailing } }

NotInstalled == [installed |-> FALSE, size |-> [i \in 1..Len(TTS_FILES) |-> Absent]]

\* the package, when installed, ships every file complete, or lacks one file,
\* or ships one file truncated
Packages ==
  { [installed |-> TRUE,
     size |-> [i \in 1..Len(TTS_FILES) |-> IF i = bad THEN sz ELSE Nominal("pkg", i)]] :
    bad \in 0..Len(TTS_FILES), sz \in {Absent, ShortLen} }

NoStatus == [n \in Names(variant) |-> "none"]

InitLoad ==
  /\ ready = FALSE
  /\ loadPromise = 1
  /\ loadError = "null"
  /\ loads = << "pending" >>
  /\ loading = {1}
  /\ loadCalls = << [promise |-> 1, during |-> {}, state |-> "pending"] >>

\* no request is being served
NoRequest == [pc |-> "idle", n |-> 0, i |-> 0, headersSent |-> FALSE,
              written |-> << >>]

InitStream ==
  /\ http = NoRequest
  /\ responses = << >>
  /\ reqBudget = 0

\* the worker has loaded its models (isReady) and no synthesis has run
InitWorker ==
  /\ isGenerating = FALSE
  /\ syn = << >>
  /\ genBudget = 0
  /\ eosChoices = {}
  /\ textChoices = {}

\* scanVoiceDirs: voice id -> wav path; the files are numbered in the order
\* of their first request, the first file of the scan being number 1
WavPaths == 1..NumVoices

\* an empty voiceCache, no call in progress
InitVoice ==
  /\ voiceCache = {}
  /\ encoding = [w \in WavPaths |-> 0]
  /\ encoderRuns = [w \in WavPaths |-> 0]
  /\ top = 0
  /\ embedBudget = 0
  /\ encodeFailures = 0
  /\ encodingLimit = 0

\* no text split yet
InitSplit == text = << >> /\ sentences = << >> /\ splitBy = "none"

\* no audio encoded yet
InitWav == samples = << >> /\ wav = << >> /\ decoded = << >> /\ wavPc = "idle"

\* no backbone run inspected yet
InitProp == slot = 0 /\ outState = << >> /\ nextState = << >> /\ propBy = "none"

\* the server as startServer leaves it: the first generation installed
InitReload ==
  /\ inFlight = 0
  /\ requests = << >>
  /\ handlers = [use |-> << 1 >>, debug |-> 1]
  /\ reloadPc = "idle"
  /\ interval = 0
  /\ polls = 0
  /\ generation = 1
  /\ httpBudget = 0
  /\ reloadBudget = 0

\* the sidecar state as the module declares it
InitSidecar ==
  /\ sidecar = [process |-> 0, status |-> "stopped", healthy |-> FALSE,
                starting |-> FALSE, shutdownRequested |-> FALSE,
                restartCount |-> 0, failureCount |-> 0, restartTimer |-> 0,
                healthTimer |-> "none", adopted |-> FALSE, voicePath |-> ""]
  /\ procs = << >>
  /\ restartTimers = {}
  /\ timerIds = 0
  /\ startCalls = << >>
  /\ stopped = FALSE
  /\ startBudget = 0

\* nothing cached, nothing in flight
InitCache ==
  /\ ttsCache = << >>
  /\ ttsCacheBytes = 0
  /\ ttsInflight = << >>
  /\ synths = << >>
  /\ synCalls = << >>
  /\ synthBudget = 0

\* the watcher as startFileWatcher leaves it
InitWatch ==
  /\ reloadTimer = 0
  /\ pendingReload = FALSE
  /\ callbacks = << >>
  /\ changeBudget = 0

\* no request handled yet
InitStatic == urlPath = << >> /\ filePath = << >> /\ staticPc = "idle"

\* the parts of the program at rest while another part is exercised
InitRest ==
  /\ InitStream
  /\ InitWorker
  /\ InitVoice
  /\ InitSplit
  /\ InitWav
  /\ InitProp
  /\ InitReload
  /\ InitSidecar
  /\ InitCache
  /\ InitWatch
  /\ InitStatic

InitDL(v) ==
  /\ variant = v
  /\ fs \in InitialFs(v)
  /\ pkg \in (IF v = "pkg" THEN Packages \cup {NotInstalled} ELSE {NotInstalled})
  /\ downloadLocks = [k \in Keys |-> NoPromise]
  /\ downloadPromises = [k \in Keys |-> NoPromise]
  /\ promises = << >>
  /\ calls = << >>
  /\ pc = "none"
  /\ exists = FALSE
  /\ idx = 0
  /\ status = [n \in Names(v) |-> "none"]
  /\ dl = Idle
  /\ owner = 0
  /\ failingAtStart = {}
  /\ started = [n \in Names(v) |-> 0]
  /\ okBefore = FALSE

(***************************************************************************)
(* download-lock.js, the operations                                        *)
(***************************************************************************)
createDownloadLock(key) ==
  IF downloadLocks[key] # NoPromise
  THEN UNCHANGED << promises, downloadLocks, downloadPromises >>
  ELSE /\ promises' = Append(promises, "pending")
       /\ downloadLocks' = [downloadLocks EXCEPT ![key] = Len(promises) + 1]
       /\ downloadPromises' = [downloadPromises EXCEPT ![key] = Len(promises) + 1]

\* the promise settled and the entries left in the maps
settleKeepsLock(key, outcome) ==
  IF downloadLocks[key] = NoPromise
  THEN UNCHANGED << promises, downloadLocks, downloadPromises >>
  ELSE /\ promises' = [promises EXCEPT ![downloadLocks[key]] = outcome]
       /\ UNCHANGED << downloadLocks, downloadPromises >>

\* lock.resolve(value) / lock.reject(error), then both entries are deleted
settleDownloadLock(key, outcome) ==
  IF downloadLocks[key] = NoPromise
  THEN UNCHANGED << promises, downloadLocks, downloadPromises >>
  ELSE /\ promises' = [promises EXCEPT ![downloadLocks[key]] = outcome]
       /\ downloadLocks' = [downloadLocks EXCEPT ![key] = NoPromise]
       /\ downloadPromises' = [downloadPromises EXCEPT ![key] = NoPromise]

resolveDownloadLock(key) == settleDownloadLock(key, "ok")

rejectDownloadLock(key) == settleDownloadLock(key, "err")

\* the files of the asset set failing the test of the download loop
failing(v, f) ==
  { i \in 1..Len(Files(v)) : isFileCorrupted(f[Files(v)[i].name], Files(v)[i].min10) }

(***************************************************************************)
(* ensureTTSModels / ensureModel: the call.  The async body runs the exists *)
(* check and suspends at its await; createDownloadLock then runs before    *)
(* the call returns.  A call that finds the key in downloadPromises        *)
(* returns that promise instead.                                           *)
(***************************************************************************)
EnsureCall ==
  /\ Len(calls) < MaxCalls
  /\ IF isDownloading(lockKey(variant))
     THEN /\ calls' = Append(calls, [role |-> "waiter",
                                      lock |-> getDownloadPromise(lockKey(variant)),
                                      state |-> "pending"])
          /\ UNCHANGED << fs, downloadLocks, downloadPromises, promises, pc,
                          exists, idx, status, dl, owner, failingAtStart,
                          started, okBefore >>
     ELSE /\ exists' = checkExists(variant, fs)
          /\ pc' = "checked"
          /\ createDownloadLock(lockKey(variant))
          /\ calls' = Append(calls, [role |-> "owner",
                                      lock |-> IF downloadLocks[lockKey(variant)] # NoPromise
                                               THEN downloadLocks[lockKey(variant)]
                                               ELSE Len(promises) + 1,
                                      state |-> "pending"])
          /\ owner' = Len(calls) + 1
          /\ failingAtStart' = failing(variant, fs)
          /\ started' = [n \in Names(variant) |-> 0]
          /\ status' = NoStatus
          /\ idx' = 0
          /\ dl' = Idle
          /\ UNCHANGED << fs, okBefore >>
  /\ UNCHANGED << variant, pkg >>
  /\ UNCHANGED notDL

(***************************************************************************)
(* The async body of the ensure call ends: resolveDownloadLock(lockKey,    *)
(* true) and the body's promise resolves, or the catch block runs          *)
(* rejectDownloadLock and rethrows.                                        *)
(***************************************************************************)
bodyEnds(outcome) ==
  /\ IF outcome = "ok" THEN resolveDownloadLock(lockKey(variant))
                       ELSE rejectDownloadLock(lockKey(variant))
  /\ calls' = [calls EXCEPT ![owner].state = outcome]
  /\ pc' = "none"
  /\ owner' = 0
  /\ okBefore' = (okBefore \/ outcome = "ok")

\* downloadFile(url, dest, 3): createWriteStream(dest) and https.get(url).
\* The stream's open creates dest empty before any network event arrives.
newDownload == [Idle EXCEPT !.phase = "get", !.gets = 1, !.tries = 1]

(***************************************************************************)
(* The download loop from index i on file system f with statuses st, up to *)
(* its next await: complete files are skipped; a corrupt one is unlinked   *)
(* (unlinkSync may throw, which ends the body of the ensure call in its    *)
(* catch block); then downloadFile is called and awaited.  Past the last   *)
(* file the loop returns and the ensure call resolves the lock.            *)
(***************************************************************************)
loopFrom(f, st, i) ==
  LET files == Files(variant)
      j  == nextToDownload(files, f, i)
      sk == [n \in Names(variant) |->
               IF \E k \in i..(j - 1) : files[k].name = n
               THEN "skipped" ELSE st[n]]
  IN  /\ idx' = j
      /\ IF j > Len(files)
         THEN /\ fs' = f
              /\ status' = sk
              /\ dl' = Idle
              /\ bodyEnds("ok")
              /\ UNCHANGED << exists, failingAtStart, started >>
         ELSE \E unlinkThrows \in (IF f[files[j].name] # Absent
                                   THEN BOOLEAN ELSE {FALSE}) :
                IF unlinkThrows
                THEN /\ fs' = f
                     /\ status' = sk
                     /\ dl' = Idle
                     /\ bodyEnds("err")
                     /\ UNCHANGED << exists, failingAtStart, started >>
                ELSE /\ fs' = [f EXCEPT ![files[j].name] = 0]
                     /\ status' = [sk EXCEPT ![files[j].name] = "downloading"]
                     /\ dl' = newDownload
                     /\ started' = [started EXCEPT ![files[j].name] = @ + 1]
                     /\ pc' = "download"
                     /\ UNCHANGED << downloadLocks, downloadPromises, promises,
                                     calls, owner, exists, failingAtStart,
                                     okBefore >>

\* The body of the ensure call resumes after `await check...Exists`.  In the
\* "pkg" revision copyFromSttttsmodels runs when the check failed, and
\* downloadTTSWebFiles (the files after TTS_FILES) runs in every case.
OwnerResume ==
  /\ pc = "checked"
  /\ IF variant = "pkg"
     THEN IF exists
          THEN loopFrom(fs, NoStatus, Len(TTS_FILES) + 1)
          ELSE LET c == copyFromSttttsmodels(fs, 1)
               IN  IF c.ok THEN loopFrom(c.fs, NoStatus, Len(TTS_FILES) + 1)
                           ELSE loopFrom(c.fs, NoStatus, 1)
     ELSE IF exists
          THEN /\ bodyEnds("ok")
               /\ UNCHANGED << fs, exists, idx, status, dl, failingAtStart,
                               started >>
          ELSE loopFrom(fs, NoStatus, 1)
  /\ UNCHANGED << variant, pkg >>
  /\ UNCHANGED notDL

(***************************************************************************)
(* downloadFile: the events of the chain the loop awaits.                  *)
(***************************************************************************)
\* the destination of the running download
dest == Files(variant)[idx].name

\* body lengths a 200 response delivers for asset i: truncated or complete
BodyLens(v, i) == { ShortLen, Nominal(v, i) }

\* what the events of a download leave alone
notChain == << variant, pkg, downloadLocks, downloadPromises, promises, calls,
               pc, exists, idx, status, owner, failingAtStart, started,
               okBefore >>

\* statusCode 301 / 302 / 307 / 308: the stream is closed, dest unlinked, and
\* downloadFile called on the Location with the same attempt.
Redirect ==
  /\ pc = "download" /\ dl.phase = "get"
  /\ dl.redirects < MaxRedirects
  /\ fs' = [fs EXCEPT ![dest] = 0]
  /\ dl' = [dl EXCEPT !.redirects = @ + 1, !.gets = @ + 1]
  /\ UNCHANGED notChain
  /\ UNCHANGED notDL

\* A failed attempt: dest is unlinked; then a timer for the next attempt, or
\* the rejection of the chain.
attemptFailed(kind) ==
  /\ fs' = [fs EXCEPT ![dest] = Absent]
  /\ IF retryAllowed(dl.attempt, MaxRetries)
     THEN dl' = [dl EXCEPT !.phase = "timer",
                           !.delay = delayMs(dl.attempt),
                           !.waits = Append(@, delayMs(dl.attempt))]
     ELSE dl' = [dl EXCEPT !.phase = "rejected", !.err = kind]
  /\ UNCHANGED notChain
  /\ UNCHANGED notDL

\* response.statusCode !== 200
HttpError ==
  /\ pc = "download" /\ dl.phase = "get"
  /\ attemptFailed("http")

\* the request's 'error' event
NetError ==
  /\ pc = "download" /\ dl.phase = "get"
  /\ attemptFailed("network")

\* setTimeout(() => downloadFile(url, dest, maxRetries, attempt + 1), delayMs)
TimerFires ==
  /\ pc = "download" /\ dl.phase = "timer"
  /\ fs' = [fs EXCEPT ![dest] = 0]
  /\ dl' = [dl EXCEPT !.phase = "get", !.attempt = @ + 1, !.delay = 0,
                      !.gets = @ + 1, !.tries = @ + 1]
  /\ UNCHANGED notChain
  /\ UNCHANGED notDL

\* statusCode 200: response.pipe(file)
Response200 ==
  /\ pc = "download" /\ dl.phase = "get"
  /\ \E len \in BodyLens(variant, idx) :
       dl' = [dl EXCEPT !.phase = "stream", !.bodyLen = len]
  /\ UNCHANGED fs
  /\ UNCHANGED notChain
  /\ UNCHANGED notDL

\* a chunk of the body is written to dest (the body arrives in two chunks)
Data ==
  /\ pc = "download" /\ dl.phase = "stream"
  /\ fs[dest] < dl.bodyLen
  /\ fs' = [fs EXCEPT ![dest] = IF @ < dl.bodyLen \div 2
                                 THEN dl.bodyLen \div 2 ELSE dl.bodyLen]
  /\ UNCHANGED dl
  /\ UNCHANGED notChain
  /\ UNCHANGED notDL

\* file.on('finish'): resolve()
Finish ==
  /\ pc = "download" /\ dl.phase = "stream"
  /\ fs[dest] = dl.bodyLen
  /\ dl' = [dl EXCEPT !.phase = "resolved"]
  /\ UNCHANGED fs
  /\ UNCHANGED notChain
  /\ UNCHANGED notDL

\* The loop resumes after `await downloadFile`: the asset is counted as
\* completed, or the catch block unlinks dest if it exists and reports the
\* error; the loop then runs on to its next await.
LoopResume ==
  /\ pc = "download" /\ dl.phase \in {"resolved", "rejected"}
  /\ IF dl.phase = "resolved"
     THEN loopFrom(fs, [status EXCEPT ![dest] = "completed"], idx + 1)
     ELSE loopFrom([fs EXCEPT ![dest] = Absent],
                   [status EXCEPT ![dest] = "error"], idx + 1)
  /\ UNCHANGED << variant, pkg >>
  /\ UNCHANGED notDL

\* A call that returned the lock promise settles as that promise did.
WaiterSettles ==
  \E c \in 1..Len(calls) :
    /\ calls[c].role = "waiter" /\ calls[c].state = "pending"
    /\ promises[calls[c].lock] # "pending"
    /\ calls' = [calls EXCEPT ![c].state = promises[calls[c].lock]]
    /\ UNCHANGED << variant, fs, pkg, downloadLocks, downloadPromises, promises,
                    pc, exists, idx, status, dl, owner, failingAtStart, started,
                    okBefore >>
    /\ UNCHANGED notDL

NextDL ==
  \/ EnsureCall
  \/ OwnerResume
  \/ Redirect
  \/ HttpError
  \/ NetError
  \/ TimerFires
  \/ Response200
  \/ Data
  \/ Finish
  \/ LoopResume
  \/ WaiterSettles

\* ensureTTSModels of the current revision (HF_TTS_BASE, onProgress), or
\* ensureModel of whisper-models.js
Init == (\E v \in {"hf", "whisper"} : InitDL(v)) /\ InitLoad /\ InitRest

Spec == Init /\ [][NextDL]_vars

\* ensureTTSModels of the revision that copies from the sttttsmodels package
InitPkg == InitDL("pkg") /\ InitLoad /\ InitRest

SpecPkg == InitPkg /\ [][NextDL]_vars

\* The write stream to dest emits 'error' (the disk is full, dest cannot be
\* opened).  downloadFile listens for 'finish' only: the event has no
\* listener, which Node raises as an uncaught exception.  The process ends
\* there, or, where the embedding application catches such exceptions, goes
\* on with a stream that never finishes.  dest keeps what was written.
WriteError ==
  /\ pc = "download" /\ dl.phase \in {"get", "stream"}
  /\ \E outcome \in {"crashed", "stalled"} :
       /\ dl' = [dl EXCEPT !.phase = outcome, !.err = "disk"]
       /\ pc' = IF outcome = "crashed" THEN "crashed" ELSE pc
  /\ UNCHANGED << variant, fs, pkg, downloadLocks, downloadPromises, promises,
                  calls, exists, idx, status, owner, failingAtStart, started,
                  okBefore >>
  /\ UNCHANGED notDL

NextDisk ==
  \/ pc # "crashed" /\ NextDL
  \/ WriteError

SpecDisk == Init /\ [][NextDisk]_vars

\* The steps the process takes by itself are taken: a timer that was set
\* fires, the write stream finishes once the body has ended, awaits resume.
\* What the network does (a response, an error, the data of a body) is not
\* the program's to decide; downloadFile sets no timeout on the request or
\* on the response.
SpecDLFair ==
  /\ Init
  /\ [][NextDL]_vars
  /\ WF_vars(OwnerResume)
  /\ WF_vars(TimerFires)
  /\ WF_vars(Finish)
  /\ WF_vars(LoopResume)
  /\ WF_vars(WaiterSettles)

(***************************************************************************)
(* server-tts.js: ensureLoaded.  The module calls ensureLoaded() once when *)
(* it is loaded, so the first load is in progress in the initial state.    *)
(* ttsOnnx.loadModels then resolves, after which ttsOnnx.isReady() holds,  *)
(* or rejects with some error.                                             *)
(***************************************************************************)
\* err.message of a failed load
Errors == {"E1", "E2"}

\* ensureLoaded without `if (loadPromise) return loadPromise`: every call
\* made before the engine is ready starts a load of its own
EnsureLoadedUnshared ==
  /\ Len(loadCalls) < MaxLoadCalls
  /\ IF ready
     THEN /\ loadCalls' = Append(loadCalls, [promise |-> NoPromise,
                                              during |-> loading,
                                              state |-> "ok"])
          /\ UNCHANGED << loadPromise, loads, loading >>
     ELSE /\ loads' = Append(loads, "pending")
          /\ loading' = loading \cup {Len(loads) + 1}
          /\ loadPromise' = Len(loads) + 1
          /\ loadCalls' = Append(loadCalls, [promise |-> Len(loads) + 1,
                                              during |-> loading,
                                              state |-> "pending"])
  /\ UNCHANGED << ready, loadError >>
  /\ UNCHANGED notLoad

\* A call: the promise it was given (NoPromise when it returned at once
\* because the engine was ready), the loads in progress when it arrived, and
\* how its own promise has settled.
EnsureLoaded ==
  /\ Len(loadCalls) < MaxLoadCalls
  /\ IF ready
     THEN /\ loadCalls' = Append(loadCalls, [promise |-> NoPromise,
                                              during |-> loading,
                                              state |-> "ok"])
          /\ UNCHANGED << loadPromise, loads, loading >>
     ELSE IF loadPromise # NoPromise
     THEN /\ loadCalls' = Append(loadCalls, [promise |-> loadPromise,
                                              during |-> loading,
                                              state |-> "pending"])
          /\ UNCHANGED << loadPromise, loads, loading >>
     ELSE /\ loads' = Append(loads, "pending")
          /\ loading' = loading \cup {Len(loads) + 1}
          /\ loadPromise' = Len(loads) + 1
          /\ loadCalls' = Append(loadCalls, [promise |-> Len(loads) + 1,
                                              during |-> loading,
                                              state |-> "pending"])
  /\ UNCHANGED << ready, loadError >>
  /\ UNCHANGED notLoad

\* ttsOnnx.loadModels(dir) resolves; loadPromise keeps the resolved promise.
\* What ttsOnnx.isReady() answers from then on is the engine's business: it is
\* left open here.
LoadSucceeds ==
  \E p \in loading, r \in BOOLEAN :
    /\ loads' = [loads EXCEPT ![p] = "ok"]
    /\ loading' = loading \ {p}
    /\ ready' = (ready \/ r)
    /\ UNCHANGED << loadPromise, loadError, loadCalls >>
    /\ UNCHANGED notLoad

\* a catch handler that records the message but keeps the rejected promise
LoadFailsKeepsPromise ==
  \E p \in loading, e \in Errors :
    /\ loadError' = e
    /\ loads' = [loads EXCEPT ![p] = e]
    /\ loading' = loading \ {p}
    /\ UNCHANGED << ready, loadPromise, loadCalls >>
    /\ UNCHANGED notLoad

\* ttsOnnx.loadModels(dir) rejects: the catch handler records the message,
\* clears loadPromise and rethrows.
LoadFails ==
  \E p \in loading, e \in Errors :
    /\ loadError' = e
    /\ loadPromise' = NoPromise
    /\ loads' = [loads EXCEPT ![p] = e]
    /\ loading' = loading \ {p}
    /\ UNCHANGED << ready, loadCalls >>
    /\ UNCHANGED notLoad

\* A caller's promise settles as the promise it was given did.
LoadCallerSettles ==
  \E c \in 1..Len(loadCalls) :
    /\ loadCalls[c].state = "pending"
    /\ loads[loadCalls[c].promise] # "pending"
    /\ loadCalls' = [loadCalls EXCEPT ![c].state = loads[loadCalls[c].promise]]
    /\ UNCHANGED << ready, loadPromise, loadError, loads, loading >>
    /\ UNCHANGED notLoad

NextLoad ==
  \/ EnsureLoaded
  \/ LoadSucceeds
  \/ LoadFails
  \/ LoadCallerSettles

\* the engine load; the asset manager stays in its initial state, every asset
\* in place
InitEngine == InitDL("hf") /\ fs = fsOf("hf", {}, {}) /\ InitLoad /\ InitRest

SpecLoad == InitEngine /\ [][NextLoad]_vars

(***************************************************************************)
(* server-middleware.js: handleSpeechRoute, the POST {prefix}/tts-stream   *)
(* route, with synthesizeStream of server-tts.js as the generator it       *)
(* consumes.  A response is recorded as its consumer sees it: the status   *)
(* code, the chunks received, and how the body ended: "json" (an error     *)
(* object sent by sendJSON) or "end" (res.end(), the ordinary end of a     *)
(* chunked body).  failed records whether an exception reached the catch   *)
(* block of the route.                                                     *)
(***************************************************************************)
respond(code, chunks, failed, ending) ==
  /\ responses' = Append(responses, [code |-> code, chunks |-> chunks,
                                     failed |-> failed, ending |-> ending])
  /\ http' = NoRequest
  /\ reqBudget' = reqBudget - 1

\* catch (err): sendJSON(res, 503 | 500, ...) if the headers are not sent yet,
\* else res.end()
routeCatch(isModelError) ==
  IF ~ http.headersSent
  THEN respond(IF isModelError THEN 503 ELSE 500, << >>, TRUE, "json")
  ELSE respond(200, http.written, TRUE, "end")

\* The route up to the for-await: parseBody (which rejects on invalid JSON),
\* the 400 for an empty text, the 503 for an engine that is not ready, else
\* writeHead(200) with chunked transfer encoding.  n is the number of
\* sentences of body.text; 0 stands for an empty text.
TtsStreamRequest ==
  /\ http.pc = "idle"
  /\ reqBudget > 0
  /\ \E validJSON \in BOOLEAN, n \in 0..MaxSentences :
       IF ~ validJSON THEN routeCatch(FALSE)
       ELSE IF n = 0 THEN respond(400, << >>, FALSE, "json")
       ELSE IF ~ ready THEN respond(503, << >>, FALSE, "json")
       ELSE /\ http' = [pc |-> "voice", n |-> n, i |-> 1, headersSent |-> TRUE,
                        written |-> << >>]
            /\ UNCHANGED << responses, reqBudget >>
  /\ UNCHANGED notStream

\* synthesizeStream up to its loop: ensureLoaded returns at once, the engine
\* being ready; getVoiceEmbedding returns the embedding or throws
\* ('No voice files found', or the error of the voice encoder).
StreamVoice ==
  /\ http.pc = "voice"
  /\ ready
  /\ \E found \in BOOLEAN :
       IF found THEN /\ http' = [http EXCEPT !.pc = "loop"]
                     /\ UNCHANGED << responses, reqBudget >>
       ELSE routeCatch(FALSE)
  /\ UNCHANGED notStream

\* One turn of the loop of synthesizeStream: ttsOnnx.synthesize of sentence i
\* resolves, the generator yields its WAV and the route writes the length
\* prefix and the chunk; or it rejects and the for-await throws.
StreamSentence ==
  /\ http.pc = "loop"
  /\ http.i <= http.n
  /\ \E synthesized \in BOOLEAN, isModelError \in BOOLEAN :
       IF synthesized
       THEN /\ http' = [http EXCEPT !.written = Append(@, http.i), !.i = @ + 1]
            /\ UNCHANGED << responses, reqBudget >>
       ELSE routeCatch(isModelError)
  /\ UNCHANGED notStream

\* the generator returns: res.end()
StreamEnd ==
  /\ http.pc = "loop"
  /\ http.i > http.n
  /\ respond(200, http.written, FALSE, "end")
  /\ UNCHANGED notStream

NextStream ==
  \/ TtsStreamRequest
  \/ StreamVoice
  \/ StreamSentence
  \/ StreamEnd

\* The engine after its load at start-up has settled: ready, or failed with
\* its error recorded.
InitEngineSettled ==
  \/ /\ ready = TRUE /\ loadPromise = 1 /\ loadError = "null"
     /\ loads = << "ok" >> /\ loading = {}
     /\ loadCalls = << [promise |-> 1, during |-> {}, state |-> "ok"] >>
  \/ \E e \in Errors :
       /\ ready = FALSE /\ loadPromise = NoPromise /\ loadError = e
       /\ loads = << e >> /\ loading = {}
       /\ loadCalls = << [promise |-> 1, during |-> {}, state |-> e] >>

InitRoutes ==
  /\ InitDL("hf") /\ fs = fsOf("hf", {}, {})
  /\ InitEngineSettled
  /\ http = NoRequest /\ responses = << >> /\ reqBudget = MaxRequests
  /\ InitWorker
  /\ InitVoice
  /\ InitSplit
  /\ InitWav
  /\ InitProp
  /\ InitReload
  /\ InitSidecar
  /\ InitCache
  /\ InitWatch
  /\ InitStatic

SpecStream == InitRoutes /\ [][NextStream]_vars

(***************************************************************************)
(* tts/tts-worker.js: self.onmessage, generateSpeech, runInference.  The   *)
(* handler of a message runs when the worker is at an await, so messages   *)
(* interleave with the steps of the syntheses in progress.  Each synthesis *)
(* has its own locals (step, latents, flowState); isGenerating is the one  *)
(* module-level flag.  A synthesis: pc "voice" (the voice conditioning run *)
(* of the backbone is awaited) | "text" (the text conditioning run) |      *)
(* "loop" (at the head of the AR loop) | "after" (runInference returned) | *)
(* "done"; eosAt is the frame whose eos_logit exceeds -4.0 (0: none);      *)
(* chunks are the audio_chunk messages posted, as frame ranges; provided   *)
(* is the state bundle given to the latest backbone run; stop is "issued"  *)
(* once a 'stop' message arrived during the synthesis and "boundary" once  *)
(* the loop condition was evaluated after that.                            *)
(***************************************************************************)
StateInputs == 0..(NumStates - 1)

\* the dtype the backbone declares for state_i (tts-client.js records
\* state_2 and state_5 as int64)
input_dtype(i) == IF i \in {2, 5} THEN "int64" ELSE "float32"

\* the out_state_i tensors a backbone run returns
outStates == [i \in StateInputs |-> input_dtype(i)]

\* let flowState = {}
emptyFlowState == [i \in {} |-> "float32"]

Running(g) == syn[g].pc \in {"voice", "text", "loop"}

\* a decode that takes the newest latent only
newestFrame(step, latents) == [first |-> step, last |-> step]

\* the frames of the chunk decoded after `step` frames with `latents` of
\* them accumulated
decodedFrames(step, latents) == [first |-> step - latents + 1, last |-> step]

\* A text is a sequence of characters: two letters, one sentence-ending
\* mark ([.!?]) and one whitespace character (\s).
Chars == {"a", "b", ".", " "}

isEnd(c) == c = "."       \* [.!?]
isSpace(c) == c = " "     \* \s

Texts == UNION {[1..n -> Chars] : n \in 0..MaxTextLen}

\* String.prototype.trim
RECURSIVE trim(_)
trim(t) ==
  IF t = << >> THEN t
  ELSE IF isSpace(Head(t)) THEN trim(Tail(t))
  ELSE IF isSpace(t[Len(t)]) THEN trim(SubSeq(t, 1, Len(t) - 1))
  ELSE t

\* preprocessText: trim; '' for an empty text; a final '.' where the text
\* does not end in [.!?].  (The alphabet has no digits: the number
\* normalisation leaves these texts as they are.)
preprocessText(t) ==
  IF trim(t) = << >> THEN << >>
  ELSE IF isEnd(trim(t)[Len(trim(t))]) THEN trim(t)
  ELSE Append(trim(t), ".")

\* 'generate': generateSpeech sets isGenerating, tokenizes and calls
\* runInference, which awaits flowLmMain.run(voiceCondInputs):
\* { sequence, text_embeddings } and no state tensor.
Generate ==
  /\ genBudget > 0
  /\ \E e \in eosChoices, t \in textChoices :
       syn' = Append(syn, [pc |-> "voice", eosAt |-> e, step |-> 0,
                           latents |-> 0, chunks |-> << >>, stop |-> "no",
                           flowState |-> emptyFlowState,
                           provided |-> emptyFlowState,
                           complete |-> FALSE,
                           flowRuns |-> 0,
                           text |-> t,
                           encoded |-> << preprocessText(t) >>])
  /\ isGenerating' = TRUE
  /\ genBudget' = genBudget - 1
  /\ UNCHANGED << eosChoices, textChoices >>
  /\ UNCHANGED notWorker

\* 'stop': isGenerating = false
Stop ==
  /\ \E g \in 1..Len(syn) : Running(g)
  /\ isGenerating' = FALSE
  /\ syn' = [g \in 1..Len(syn) |->
               IF Running(g) /\ syn[g].stop = "no"
               THEN [syn[g] EXCEPT !.stop = "issued"] ELSE syn[g]]
  /\ UNCHANGED << genBudget, eosChoices, textChoices >>
  /\ UNCHANGED notWorker

\* a decode at EOS only
decodeAtEos(n, eos) == eos

\* a decode of full batches only
decodeWhenFull(n, eos) == n >= DecodeEvery

\* if (latents.length >= 12 || eosLogit > -4.0): decode and post the chunk
decodeDue(n, eos) == n >= DecodeEvery \/ eos

\* a loop that goes on after EOS
neverBreaks(eos) == FALSE

\* if (eosLogit > -4.0) break
breaks(eos) == eos

\* The voice conditioning run returns: flowState takes its out_state_*
\* outputs; the text conditioner runs, and the backbone runs on the text
\* embeddings with { ...flowState }.
VoiceConditioned(g) ==
  /\ syn[g].pc = "voice"
  /\ syn' = [syn EXCEPT ![g].pc = "text", ![g].flowState = outStates,
                        ![g].provided = outStates]
  /\ UNCHANGED << isGenerating, genBudget, eosChoices, textChoices >>
  /\ UNCHANGED notWorker

\* the text conditioning run returns: flowState is updated, the AR loop begins
TextConditioned(g) ==
  /\ syn[g].pc = "text"
  /\ syn' = [syn EXCEPT ![g].pc = "loop", ![g].flowState = outStates]
  /\ UNCHANGED << isGenerating, genBudget, eosChoices, textChoices >>
  /\ UNCHANGED notWorker

\* One evaluation of `step < MAX_FRAMES && isGenerating` and, when it holds,
\* the iteration it admits: the AR run with { ...flowState }, flow matching,
\* latents.push, the decode of the accumulated latents when there are 12 of
\* them or EOS is signalled, and the break on EOS.  A message that arrives
\* during the iteration is seen by the next evaluation only.
Iterate(g) ==
  /\ syn[g].pc = "loop"
  /\ LET y      == syn[g]
         seen   == IF y.stop = "issued" THEN "boundary" ELSE y.stop
         step   == y.step + 1
         n      == y.latents + 1
         eos    == step = y.eosAt
         decode == decodeDue(n, eos)
     IN  IF y.step < MAX_FRAMES /\ isGenerating
         THEN syn' = [syn EXCEPT
                ![g] = [y EXCEPT
                  !.stop = seen,
                  !.step = step,
                  !.provided = y.flowState,
                  !.flowState = outStates,
                  !.latents = IF decode THEN 0 ELSE n,
                  !.chunks = IF decode THEN Append(@, decodedFrames(step, n)) ELSE @,
                  !.flowRuns = @ + MAX_LSD,
                  !.pc = IF breaks(eos) THEN "after" ELSE "loop"]]
         ELSE syn' = [syn EXCEPT ![g].stop = seen, ![g].pc = "after"]
  /\ UNCHANGED << isGenerating, genBudget, eosChoices, textChoices >>
  /\ UNCHANGED notWorker

\* generateSpeech after `await runInference`: 'generation_complete' is
\* posted if isGenerating still holds; then isGenerating = false.
GenerationEnds(g) ==
  /\ syn[g].pc = "after"
  /\ syn' = [syn EXCEPT ![g].pc = "done", ![g].complete = isGenerating]
  /\ isGenerating' = FALSE
  /\ UNCHANGED << genBudget, eosChoices, textChoices >>
  /\ UNCHANGED notWorker

NextWorker ==
  \/ Generate
  \/ Stop
  \/ \E g \in 1..Len(syn) : VoiceConditioned(g)
  \/ \E g \in 1..Len(syn) : TextConditioned(g)
  \/ \E g \in 1..Len(syn) : Iterate(g)
  \/ \E g \in 1..Len(syn) : GenerationEnds(g)

\* the rest at rest: every asset in place, the server engine settled
InitServerIdle ==
  /\ InitDL("hf") /\ fs = fsOf("hf", {}, {})
  /\ ready = TRUE /\ loadPromise = 1 /\ loadError = "null"
  /\ loads = << "ok" >> /\ loading = {}
  /\ loadCalls = << [promise |-> 1, during |-> {}, state |-> "ok"] >>
  /\ InitStream
  /\ InitVoice
  /\ InitSplit
  /\ InitWav
  /\ InitProp
  /\ InitReload
  /\ InitSidecar
  /\ InitCache
  /\ InitWatch
  /\ InitStatic

\* short texts: EOS comes within MaxEos frames
InitShort ==
  /\ InitServerIdle
  /\ isGenerating = FALSE /\ syn = << >>
  /\ genBudget = MaxGenerates
  /\ eosChoices = 1..MaxEos
  /\ textChoices = {<< "a" >>}

SpecWorker == InitShort /\ [][NextWorker]_vars

\* one text for which the backbone never signals EOS
InitLong ==
  /\ InitServerIdle
  /\ isGenerating = FALSE /\ syn = << >>
  /\ genBudget = 1
  /\ eosChoices = {0}
  /\ textChoices = {<< "a" >>}

SpecLong == InitLong /\ [][NextWorker]_vars

\* one synthesis, of a text with EOS at frame MaxEos or of one without EOS;
\* the worker goes on with a synthesis it has begun
InitFrames ==
  /\ InitServerIdle
  /\ isGenerating = FALSE /\ syn = << >>
  /\ genBudget = 1
  /\ eosChoices = {0, MaxEos}
  /\ textChoices = {<< "a" >>}

SpecFrames ==
  /\ InitFrames
  /\ [][NextWorker]_vars
  /\ WF_vars(\E g \in 1..Len(syn) : VoiceConditioned(g))
  /\ WF_vars(\E g \in 1..Len(syn) : TextConditioned(g))
  /\ WF_vars(\E g \in 1..Len(syn) : Iterate(g))
  /\ WF_vars(\E g \in 1..Len(syn) : GenerationEnds(g))

\* one 'generate' message with any text, the empty and the blank ones included
InitAnyText ==
  /\ InitServerIdle
  /\ isGenerating = FALSE /\ syn = << >>
  /\ genBudget = 1
  /\ eosChoices = {1}
  /\ textChoices = Texts

SpecAnyText == InitAnyText /\ [][NextWorker]_vars

\* one synthesis in the worker, stopped or not, and one streamed request on
\* the server
InitOrder ==
  /\ InitDL("hf") /\ fs = fsOf("hf", {}, {})
  /\ ready = TRUE /\ loadPromise = 1 /\ loadError = "null"
  /\ loads = << "ok" >> /\ loading = {}
  /\ loadCalls = << [promise |-> 1, during |-> {}, state |-> "ok"] >>
  /\ http = NoRequest /\ responses = << >> /\ reqBudget = 1
  /\ isGenerating = FALSE /\ syn = << >>
  /\ genBudget = 1
  /\ eosChoices = 0..MaxEos
  /\ textChoices = {<< "a" >>}
  /\ InitVoice
  /\ InitSplit
  /\ InitWav
  /\ InitProp
  /\ InitReload
  /\ InitSidecar
  /\ InitCache
  /\ InitWatch
  /\ InitStatic

NextOrder == NextWorker \/ NextStream

SpecOrder == InitOrder /\ [][NextOrder]_vars

(***************************************************************************)
(* server-tts.js: getVoiceEmbedding and voiceCache.  voiceId 0 stands for  *)
(* an id scanVoiceDirs does not know (or none): it falls back to the first *)
(* file of the scan.  The call reads and resamples the file synchronously  *)
(* and then awaits ttsOnnx.encodeVoiceAudio; other calls run meanwhile.    *)
(***************************************************************************)
\* voices[voiceId] || Object.values(voices)[0]
wavPathOf(voiceId) == IF voiceId = 0 THEN 1 ELSE voiceId

SumOver(f) ==
  LET RECURSIVE sum(_)
      sum(k) == IF k = 0 THEN 0 ELSE f[k] + sum(k - 1)
  IN  sum(NumVoices)

\* getVoiceEmbedding up to its await: a hit returns voiceCache[wavPath]; a
\* miss reads the file and calls the voice encoder.
GetVoiceEmbedding ==
  /\ embedBudget > 0
  /\ \E voiceId \in 0..(IF top < NumVoices THEN top + 1 ELSE NumVoices) :
       LET wavPath == wavPathOf(voiceId)
       IN  /\ top' = IF wavPath > top THEN wavPath ELSE top
           /\ IF wavPath \in voiceCache
              THEN UNCHANGED << encoding, encoderRuns >>
              ELSE /\ SumOver(encoding) < encodingLimit
                   /\ encoding' = [encoding EXCEPT ![wavPath] = @ + 1]
                   /\ encoderRuns' = [encoderRuns EXCEPT ![wavPath] = @ + 1]
  /\ embedBudget' = embedBudget - 1
  /\ UNCHANGED << voiceCache, encodeFailures, encodingLimit >>
  /\ UNCHANGED notVoice

\* encodeVoiceAudio resolves: voiceCache[wavPath] = embedding
VoiceEncoded ==
  /\ \E wavPath \in WavPaths :
       /\ encoding[wavPath] > 0
       /\ encoding' = [encoding EXCEPT ![wavPath] = @ - 1]
       /\ voiceCache' = voiceCache \cup {wavPath}
  /\ UNCHANGED << encoderRuns, top, embedBudget, encodeFailures,
                  encodingLimit >>
  /\ UNCHANGED notVoice

\* encodeVoiceAudio rejects: the call throws, nothing is cached
VoiceEncodeFails ==
  /\ encodeFailures > 0
  /\ \E wavPath \in WavPaths :
       /\ encoding[wavPath] > 0
       /\ encoding' = [encoding EXCEPT ![wavPath] = @ - 1]
  /\ encodeFailures' = encodeFailures - 1
  /\ UNCHANGED << voiceCache, encoderRuns, top, embedBudget, encodingLimit >>
  /\ UNCHANGED notVoice

NextVoice ==
  \/ GetVoiceEmbedding
  \/ VoiceEncoded
  \/ VoiceEncodeFails

InitVoices ==
  /\ InitDL("hf") /\ fs = fsOf("hf", {}, {})
  /\ ready = TRUE /\ loadPromise = 1 /\ loadError = "null"
  /\ loads = << "ok" >> /\ loading = {}
  /\ loadCalls = << [promise |-> 1, during |-> {}, state |-> "ok"] >>
  /\ InitStream
  /\ InitWorker
  /\ voiceCache = {}
  /\ encoding = [w \in WavPaths |-> 0]
  /\ encoderRuns = [w \in WavPaths |-> 0]
  /\ top = 0
  /\ embedBudget = MaxEmbedCalls
  /\ encodeFailures = MaxEncodeFailures
  /\ encodingLimit = MaxEncoding
  /\ InitSplit
  /\ InitWav
  /\ InitProp
  /\ InitReload
  /\ InitSidecar
  /\ InitCache
  /\ InitWatch
  /\ InitStatic

SpecVoice == InitVoices /\ [][NextVoice]_vars

\* a run long enough to ask for every voice file, and once more, each call
\* made after the one before it has returned
InitEveryVoice ==
  /\ InitDL("hf") /\ fs = fsOf("hf", {}, {})
  /\ ready = TRUE /\ loadPromise = 1 /\ loadError = "null"
  /\ loads = << "ok" >> /\ loading = {}
  /\ loadCalls = << [promise |-> 1, during |-> {}, state |-> "ok"] >>
  /\ InitStream
  /\ InitWorker
  /\ voiceCache = {}
  /\ encoding = [w \in WavPaths |-> 0]
  /\ encoderRuns = [w \in WavPaths |-> 0]
  /\ top = 0
  /\ embedBudget = NumVoices + 1
  /\ encodeFailures = MaxEncodeFailures
  /\ encodingLimit = 1
  /\ InitSplit
  /\ InitWav
  /\ InitProp
  /\ InitReload
  /\ InitSidecar
  /\ InitCache
  /\ InitWatch
  /\ InitStatic

SpecEveryVoice == InitEveryVoice /\ [][NextVoice]_vars

(***************************************************************************)
(* splitSentences, in its two revisions.  A text is a sequence of          *)
(* characters: two letters, one sentence-ending mark ([.!?]) and one       *)
(* whitespace character (\s).  The regular expressions are matched as the  *)
(* JavaScript engine matches them: leftmost, alternatives in order,        *)
(* quantifiers greedy with backtracking, the next match starting where the *)
(* last one ended.                                                         *)
(***************************************************************************)
Largest(S) == CHOOSE x \in S : \A y \in S : y <= x

\* the longest run of sentence-ending marks that starts at position i
endRun(t, i) ==
  Largest({k \in 0..(Len(t) - i + 1) :
             \A m \in i..(i + k - 1) : isEnd(t[m])})

\* the longest run of whitespace that starts at position i
spaceRun(t, i) ==
  Largest({k \in 0..(Len(t) - i + 1) :
             \A m \in i..(i + k - 1) : isSpace(t[m])})

\* the longest run of [^.!?] that starts at position i
plainRun(t, i) ==
  Largest({k \in 0..(Len(t) - i + 1) :
             \A m \in i..(i + k - 1) : ~isEnd(t[m])})

\* [^.!?]|[.!?](?!\s) at position m
inSentence(t, m) ==
  \/ ~isEnd(t[m])
  \/ ~(m + 1 <= Len(t) /\ isSpace(t[m + 1]))

\* the longest run of (?:[^.!?]|[.!?](?!\s)) that starts at position i
sentenceRun(t, i) ==
  Largest({k \in 0..(Len(t) - i + 1) :
             \A m \in i..(i + k - 1) : inSentence(t, m)})

\* /(?:[^.!?]|[.!?](?!\s))+[.!?]*(?:\s+|$)/ tried at position i: the
\* position after the match, 0 if there is none
matchAt(t, i) ==
  LET tail(k, e) == IF spaceRun(t, i + k + e) >= 1
                    THEN i + k + e + spaceRun(t, i + k + e)
                    ELSE IF i + k + e = Len(t) + 1 THEN Len(t) + 1 ELSE 0
      ks == {k \in 1..sentenceRun(t, i) :
               \E e \in 0..endRun(t, i + k) : tail(k, e) # 0}
  IN  IF ks = {} THEN 0
      ELSE LET k == Largest(ks)
               e == Largest({x \in 0..endRun(t, i + k) : tail(k, x) # 0})
           IN  tail(k, e)

\* /[^.!?]+[.!?]+[\s]?|[^.!?]+$/ tried at position i
matchAtSidecar(t, i) ==
  LET ns == {n \in 1..plainRun(t, i) : endRun(t, i + n) >= 1}
  IN  IF ns # {}
      THEN LET n == Largest(ns)
               e == endRun(t, i + n)
           IN  IF i + n + e <= Len(t) /\ isSpace(t[i + n + e])
               THEN i + n + e + 1
               ELSE i + n + e
      ELSE IF plainRun(t, i) >= 1 /\ i + plainRun(t, i) = Len(t) + 1
           THEN Len(t) + 1
           ELSE 0

\* String.prototype.match with the g flag: every match, left to right
RECURSIVE matchAll(_, _)
matchAll(t, i) ==
  IF i > Len(t) THEN << >>
  ELSE IF matchAt(t, i) = 0 THEN matchAll(t, i + 1)
  ELSE << SubSeq(t, i, matchAt(t, i) - 1) >> \o matchAll(t, matchAt(t, i))

\* /[^.!?]+[.!?]+|[^.!?]+$/ tried at position i
matchAtStream(t, i) ==
  LET ns == {n \in 1..plainRun(t, i) : endRun(t, i + n) >= 1}
  IN  IF ns # {}
      THEN i + Largest(ns) + endRun(t, i + Largest(ns))
      ELSE IF plainRun(t, i) >= 1 /\ i + plainRun(t, i) = Len(t) + 1
           THEN Len(t) + 1
           ELSE 0

RECURSIVE matchAllStream(_, _)
matchAllStream(t, i) ==
  IF i > Len(t) THEN << >>
  ELSE IF matchAtStream(t, i) = 0 THEN matchAllStream(t, i + 1)
  ELSE << SubSeq(t, i, matchAtStream(t, i) - 1) >>
         \o matchAllStream(t, matchAtStream(t, i))

RECURSIVE matchAllSidecar(_, _)
matchAllSidecar(t, i) ==
  IF i > Len(t) THEN << >>
  ELSE IF matchAtSidecar(t, i) = 0 THEN matchAllSidecar(t, i + 1)
  ELSE << SubSeq(t, i, matchAtSidecar(t, i) - 1) >>
         \o matchAllSidecar(t, matchAtSidecar(t, i))

\* .map(s => s.trim()).filter(Boolean)
RECURSIVE trimmedNonEmpty(_)
trimmedNonEmpty(ms) ==
  IF ms = << >> THEN << >>
  ELSE IF trim(Head(ms)) = << >> THEN trimmedNonEmpty(Tail(ms))
  ELSE << trim(Head(ms)) >> \o trimmedNonEmpty(Tail(ms))

\* speech.js: text.match(...)?.map(s => s.trim()).filter(Boolean) || [text]
splitSentences(t) ==
  IF matchAll(t, 1) = << >> THEN << t >>
  ELSE trimmedNonEmpty(matchAll(t, 1))

\* the sidecar revision: if (!raw) return [text]; return raw.map(...).filter(...)
splitSentencesSidecar(t) ==
  IF matchAllSidecar(t, 1) = << >> THEN << t >>
  ELSE trimmedNonEmpty(matchAllSidecar(t, 1))

\* server-tts.js synthesizeStream: text.match(...) || [text], and in the loop
\* s = sentence.trim(); if (!s) continue: the sentences it synthesizes
streamSentences(t) ==
  IF matchAllStream(t, 1) = << >> THEN trimmedNonEmpty(<< t >>)
  ELSE trimmedNonEmpty(matchAllStream(t, 1))

SplitSentences ==
  /\ splitBy = "none"
  /\ sentences' = splitSentences(text)
  /\ splitBy' = "speech"
  /\ UNCHANGED text
  /\ UNCHANGED notSplit

SplitSentencesSidecar ==
  /\ splitBy = "none"
  /\ sentences' = splitSentencesSidecar(text)
  /\ splitBy' = "sidecar"
  /\ UNCHANGED text
  /\ UNCHANGED notSplit

SplitInStream ==
  /\ splitBy = "none"
  /\ sentences' = streamSentences(text)
  /\ splitBy' = "stream"
  /\ UNCHANGED text
  /\ UNCHANGED notSplit

NextSplit ==
  \/ SplitSentences
  \/ SplitSentencesSidecar
  \/ SplitInStream

InitTexts ==
  /\ InitDL("hf") /\ fs = fsOf("hf", {}, {})
  /\ InitLoad
  /\ InitStream
  /\ InitWorker
  /\ InitVoice
  /\ text \in Texts
  /\ sentences = << >>
  /\ splitBy = "none"
  /\ InitWav
  /\ InitProp
  /\ InitReload
  /\ InitSidecar
  /\ InitCache
  /\ InitWatch
  /\ InitStatic

SpecSplit == InitTexts /\ [][NextSplit]_vars

(***************************************************************************)
(* The 16-bit WAV codec: encodeWav and decodeWavToFloat32 of the server,   *)
(* encodeWAV of the browser.  A float sample is the integer n that stands  *)
(* for n / 65536 (such a value is exact as a float32, and so are its       *)
(* products with 32767 and 32768 as doubles); the 44 header bytes are the  *)
(* fields of a record, the sample bytes a sequence.                        *)
(***************************************************************************)
SAMPLE_RATE == 24000

One == 65536     \* the float 1.0

SampleValues ==
  {-98304, -65536, -58982, -32768, -1, 0, 1, 32768, 58982, 65535, 65536, 98304}

Buffers == UNION {[1..n -> SampleValues] : n \in 0..MaxSamples}

\* Math.max(-1, Math.min(1, x))
clip(x) == IF x > One THEN One ELSE IF x < -One THEN -One ELSE x

\* the integer part of a / b (b > 0), as the conversion to an integer takes it
truncated(a, b) == IF a >= 0 THEN a \div b ELSE -((-a) \div b)

\* s < 0 ? s * 32768 : s * 32767, then the conversion of setInt16 (the
\* product with 32768 is taken as a quotient, One being 2 * 32768)
toInt16(x) ==
  LET s == clip(x)
      v == IF s < 0 THEN truncated(s, One \div 32768)
                    ELSE truncated(s * 32767, One)
  IN  ((v + 32768) % 65536) - 32768

\* view.setInt16(offset, v, true): two bytes, low byte first
int16Bytes(v) == << (v % 65536) % 256, (v % 65536) \div 256 >>

\* view.getInt16(offset, true)
getInt16(lo, hi) ==
  IF lo + 256 * hi >= 32768 THEN lo + 256 * hi - 65536 ELSE lo + 256 * hi

RECURSIVE sampleBytes(_)
sampleBytes(xs) ==
  IF xs = << >> THEN << >>
  ELSE int16Bytes(toInt16(Head(xs))) \o sampleBytes(Tail(xs))

\* encodeWav(float32Audio, sampleRate)
encodeWav(float32Audio, sampleRate) ==
  [riff |-> "RIFF", numChannels |-> 1, sampleRate |-> sampleRate,
   bitsPerSample |-> 16, data |-> sampleBytes(float32Audio)]

\* encodeWAV(audioBuffer): the buffers are merged, then encoded alike
encodeWAV(audioBuffer) ==
  LET RECURSIVE merged(_)
      merged(bs) == IF bs = << >> THEN << >> ELSE Head(bs) \o merged(Tail(bs))
  IN  [riff |-> "RIFF", numChannels |-> 1, sampleRate |-> SAMPLE_RATE,
       bitsPerSample |-> 16, data |-> sampleBytes(merged(audioBuffer))]

\* decodeWavToFloat32(buffer).audio for 16 and 8 bits per sample (the
\* encoders write 16): the data chunk is found at byte 36
decodeWavToFloat32(w) ==
  LET bytesPerSample == w.bitsPerSample \div 8
      numSamples == Len(w.data) \div (bytesPerSample * w.numChannels)
      offset(i) == (i - 1) * bytesPerSample * w.numChannels
  IN  [i \in 1..numSamples |->
         IF w.bitsPerSample = 16
         THEN getInt16(w.data[offset(i) + 1], w.data[offset(i) + 2]) * (One \div 32768)
         ELSE (w.data[offset(i) + 1] - 128) * (One \div 128)]

\* the server encodes a synthesized buffer
EncodeWav ==
  /\ wavPc = "samples"
  /\ wav' = encodeWav(samples, SAMPLE_RATE)
  /\ wavPc' = "encoded"
  /\ UNCHANGED << samples, decoded >>
  /\ UNCHANGED notWav

\* the browser encodes its recorded buffers
EncodeWAV ==
  /\ wavPc = "samples"
  /\ wav' = encodeWAV(<< SubSeq(samples, 1, Len(samples) \div 2),
                         SubSeq(samples, Len(samples) \div 2 + 1, Len(samples)) >>)
  /\ wavPc' = "encoded"
  /\ UNCHANGED << samples, decoded >>
  /\ UNCHANGED notWav

\* the server decodes a WAV file
DecodeWav ==
  /\ wavPc = "encoded"
  /\ wav.riff = "RIFF"
  /\ decoded' = decodeWavToFloat32(wav)
  /\ wavPc' = "decoded"
  /\ UNCHANGED << samples, wav >>
  /\ UNCHANGED notWav

NextWav ==
  \/ EncodeWav
  \/ EncodeWAV
  \/ DecodeWav

InitBuffers ==
  /\ InitDL("hf") /\ fs = fsOf("hf", {}, {})
  /\ InitLoad
  /\ InitStream
  /\ InitWorker
  /\ InitVoice
  /\ InitSplit
  /\ samples \in Buffers
  /\ wav = << >>
  /\ decoded = << >>
  /\ wavPc = "samples"
  /\ InitProp
  /\ InitReload
  /\ InitSidecar
  /\ InitCache
  /\ InitWatch
  /\ InitStatic

SpecWav == InitBuffers /\ [][NextWav]_vars

(***************************************************************************)
(* State propagation after a backbone run, in the worker (runInference)    *)
(* and in the page client (generate).  A tensor is its type, its dims and  *)
(* its data; a float32 element is the integer n that stands for n / 10, an *)
(* int64 element is itself.  The dtype of an out_state_i output is the     *)
(* model file's, which the code does not fix.                              *)
(***************************************************************************)
FloatValues == {-25, -4, 0, 37}

IntValues == {-2, 0, 4}

Tensors ==
  UNION {[type : {"float32"}, dims : {<< n >>}, data : [1..n -> FloatValues]]
           \cup [type : {"int64"}, dims : {<< n >>}, data : [1..n -> IntValues]]
         : n \in 1..MaxElements}

\* Math.round of n / 10
MathRound(n) == (n + 5) \div 10

\* tts-worker.js: flowState[`state_${idx}`] = arResult[name]
workerState(i, outputTensor) == outputTensor

\* tts-client.js: the output converted where the declared dtype differs
clientState(i, outputTensor) ==
  IF input_dtype(i) = "int64" /\ outputTensor.type = "float32"
  THEN [type |-> "int64", dims |-> outputTensor.dims,
        data |-> [k \in DOMAIN outputTensor.data |->
                    MathRound(outputTensor.data[k])]]
  ELSE IF input_dtype(i) = "float32" /\ outputTensor.type = "int64"
  THEN [type |-> "float32", dims |-> outputTensor.dims,
        data |-> [k \in DOMAIN outputTensor.data |-> 10 * outputTensor.data[k]]]
  ELSE outputTensor

PropagateWorker ==
  /\ propBy = "none"
  /\ nextState' = workerState(slot, outState)
  /\ propBy' = "worker"
  /\ UNCHANGED << slot, outState >>
  /\ UNCHANGED notProp

PropagateClient ==
  /\ propBy = "none"
  /\ nextState' = clientState(slot, outState)
  /\ propBy' = "client"
  /\ UNCHANGED << slot, outState >>
  /\ UNCHANGED notProp

NextProp ==
  \/ PropagateWorker
  \/ PropagateClient

InitOutputs ==
  /\ InitDL("hf") /\ fs = fsOf("hf", {}, {})
  /\ InitLoad
  /\ InitStream
  /\ InitWorker
  /\ InitVoice
  /\ InitSplit
  /\ InitWav
  /\ slot \in StateInputs
  /\ outState \in Tensors
  /\ nextState = << >>
  /\ propBy = "none"
  /\ InitReload
  /\ InitSidecar
  /\ InitCache
  /\ InitWatch
  /\ InitStatic

SpecProp == InitOutputs /\ [][NextProp]_vars

(***************************************************************************)
(* The development server: createApp's request function, drain of          *)
(* hot-reload.js and reloadMiddleware.  The handler set is the object      *)
(* state.handlers.current; app.use and app.get of any app write to that    *)
(* one object.  handlers.use lists the generations of middleware.js whose  *)
(* middleware is registered, handlers.debug is the generation whose        *)
(* '/api/debug' route is registered.  Reloads do not overlap here.         *)
(***************************************************************************)
\* a generation is fully installed once its middleware and its debug route
\* are both registered
installed(g) ==
  /\ \E k \in 1..Len(handlers.use) : handlers.use[k] = g
  /\ handlers.debug = g

\* app(req, res): trackRequest(), onEnd attached to 'finish' and 'close',
\* then the request is dispatched to the handlers of getCurrentHandlers().
\* Nothing here looks at draining or swapping.
Request ==
  /\ httpBudget > 0
  /\ inFlight' = inFlight + 1
  /\ requests' = Append(requests, [st |-> "open", listening |-> TRUE,
                                    events |-> 0])
  /\ httpBudget' = httpBudget - 1
  /\ UNCHANGED << handlers, reloadPc, interval, polls, generation, reloadBudget >>
  /\ UNCHANGED notReload

\* onEnd left attached
staysAttached(l) == l

\* onEnd removes itself from 'finish' and from 'close'
removeListener(l) == FALSE

\* The response emits 'finish' (the response was written out) and later
\* 'close', or 'close' alone (the connection was lost); onEnd runs if it is
\* still attached: untrackRequest(), and it removes itself.
RequestEnds ==
  \E r \in DOMAIN requests, ev \in {"finish", "close"} :
    /\ ev = "finish" => requests[r].st = "open"
    /\ requests[r].st # "closed"
    /\ LET after == IF ev = "finish" THEN "finished" ELSE "closed"
       IN IF requests[r].listening
          THEN /\ inFlight' = inFlight - 1
               /\ requests' = [requests EXCEPT
                                 ![r] = [st |-> after,
                                         listening |-> removeListener(@.listening),
                                         events |-> @.events + 1]]
          ELSE /\ requests' = [requests EXCEPT ![r].st = after,
                                               ![r].events = @ + 1]
               /\ UNCHANGED inFlight
    /\ UNCHANGED << handlers, reloadPc, interval, polls, generation, httpBudget,
                    reloadBudget >>
    /\ UNCHANGED notReload

\* One evaluation of drain's loop condition and what follows it without a
\* timer or I/O in between.  With requests in flight: the timeout error once
\* time is up (a timer may be as late as that), or the next timer.  With
\* none: drain returns, reloadMiddleware requires middleware.js anew and
\* webtalk(newApp) registers its middleware, up to `await newInit()`.
drainLoop(i, n) ==
  IF inFlight > 0
  THEN \/ /\ n > 0
          /\ reloadPc' = "idle"
          /\ interval' = 0 /\ polls' = 0
          /\ UNCHANGED << handlers, generation >>
       \/ /\ n < MaxPolls
          /\ reloadPc' = "sleep"
          /\ interval' = (IF 2 * i < MAX_DRAIN_INTERVAL THEN 2 * i
                                                         ELSE MAX_DRAIN_INTERVAL)
          /\ polls' = n + 1
          /\ UNCHANGED << handlers, generation >>
  ELSE /\ generation' = generation + 1
       /\ handlers' = [handlers EXCEPT !.use = Append(@, generation + 1)]
       /\ reloadPc' = "init"
       /\ interval' = 0 /\ polls' = 0

\* the watcher's debounce timer fires: reloadMiddleware, drain.  Here a
\* reload begins only when none is running; the watcher itself does not
\* wait for that (see FileChange and DebounceFires).
Reload ==
  /\ reloadBudget > 0
  /\ reloadPc = "idle"
  /\ reloadBudget' = reloadBudget - 1
  /\ drainLoop(DRAIN_INTERVAL, 0)
  /\ UNCHANGED << inFlight, requests, httpBudget >>
  /\ UNCHANGED notReload

\* await new Promise(r => setTimeout(r, interval)) is over
DrainTimer ==
  /\ reloadPc = "sleep"
  /\ drainLoop(interval, polls)
  /\ UNCHANGED << inFlight, requests, httpBudget, reloadBudget >>
  /\ UNCHANGED notReload

\* newInit() resolves: newApp.get('/api/debug', ...)
InitResolves ==
  /\ reloadPc = "init"
  /\ handlers' = [handlers EXCEPT !.debug = generation]
  /\ reloadPc' = "idle"
  /\ UNCHANGED << inFlight, requests, interval, polls, generation,
                  httpBudget, reloadBudget >>
  /\ UNCHANGED notReload

\* newInit() rejects (a download failed): the watcher records the error
InitRejects ==
  /\ reloadPc = "init"
  /\ reloadPc' = "idle"
  /\ UNCHANGED << inFlight, requests, handlers, interval, polls, generation,
                  httpBudget, reloadBudget >>
  /\ UNCHANGED notReload

NextReload ==
  \/ Request
  \/ RequestEnds
  \/ Reload
  \/ DrainTimer
  \/ InitResolves
  \/ InitRejects

InitServing ==
  /\ InitDL("hf") /\ fs = fsOf("hf", {}, {})
  /\ InitLoad
  /\ InitStream
  /\ InitWorker
  /\ InitVoice
  /\ InitSplit
  /\ InitWav
  /\ InitProp
  /\ InitSidecar
  /\ InitCache
  /\ InitWatch
  /\ InitStatic
  /\ inFlight = 0
  /\ requests = << >>
  /\ handlers = [use |-> << 1 >>, debug |-> 1]
  /\ reloadPc = "idle"
  /\ interval = 0
  /\ polls = 0
  /\ generation = 1
  /\ httpBudget = MaxHttp
  /\ reloadBudget = MaxReloads

SpecReload == InitServing /\ [][NextReload]_vars

(***************************************************************************)
(* The pocket-tts sidecar: start, stop, health checks and restarts         *)
(***************************************************************************)

MaxStarts == 2
MaxProcs == 3
MaxTimers == 2

FALLBACK_VOICE == "alba"
BaseDelay == 1000
MaxDelay == 30000
FailureLimit == 3

\* the state, the processes and the timeouts, as one value the helpers thread
world == [s |-> sidecar, ps |-> procs, ts |-> restartTimers, n |-> timerIds]

killProcess(w) ==
  [w EXCEPT
     !.ps = [p \in DOMAIN w.ps |->
               IF p = w.s.process /\ w.ps[p].st = "alive"
               THEN [w.ps[p] EXCEPT !.st = "killed"] ELSE w.ps[p]],
     !.s = [w.s EXCEPT !.process = 0, !.healthy = FALSE, !.status = "stopped"]]

restartDelay(count) ==
  IF BaseDelay * Pow2(count) < MaxDelay THEN BaseDelay * Pow2(count) ELSE MaxDelay

scheduleRestart(w) ==
  IF w.s.shutdownRequested THEN w
  ELSE LET k == IF w.s.adopted THEN w ELSE killProcess(w)
           id == k.n + 1
       IN [k EXCEPT !.s.restartCount = @ + 1,
                    !.s.restartTimer = id,
                    !.ts = @ \cup {[id |-> id,
                                    delay |-> restartDelay(k.s.restartCount)]},
                    !.n = id]

\* spawnSidecar and attachProc
spawnSidecar(w) ==
  [w EXCEPT !.ps = Append(@, [st |-> "alive", onExit |-> FALSE]),
            !.s.process = Len(w.ps) + 1,
            !.s.status = "starting"]

\* a health check can be answered only by a process that is alive
answers(ok) == ok => \E p \in DOMAIN procs : procs[p].st = "alive"

setWorld(w) ==
  /\ sidecar' = w.s
  /\ procs' = w.ps
  /\ restartTimers' = w.ts
  /\ timerIds' = w.n

\* start() up to its first await: the call goes on only if no start is in
\* progress and the sidecar is not already running and healthy
startBegins(s, voice) ==
  IF s.starting \/ (s.status = "running" /\ s.healthy)
  THEN startCalls
  ELSE Append(startCalls, [pc |-> "adopt", voice |-> voice, proc |-> 0])

\* the user calls start(voicePath)
start ==
  /\ startBudget > 0
  /\ \E voice \in {"", "custom"} :
       startCalls' = startBegins(sidecar, voice)
  /\ startBudget' = startBudget - 1
  /\ stopped' = FALSE
  /\ UNCHANGED << sidecar, procs, restartTimers, timerIds >>
  /\ UNCHANGED notSidecar

\* await adoptRunning() settles, and start goes on to its next await
AdoptSettles ==
  \E c \in DOMAIN startCalls, ok \in BOOLEAN :
    /\ startCalls[c].pc = "adopt"
    /\ answers(ok)
    /\ LET call == startCalls[c]
       IN IF ok
          THEN /\ sidecar' =
                    [sidecar EXCEPT
                       !.status = "running", !.healthy = TRUE,
                       !.adopted = TRUE, !.restartCount = 0,
                       !.failureCount = 0,
                       !.healthTimer = IF @ = "none" THEN "adopt" ELSE @,
                       !.voicePath = IF call.voice # "" THEN call.voice ELSE @]
               /\ startCalls' = [startCalls EXCEPT ![c].pc = "done"]
               /\ UNCHANGED << procs, restartTimers, timerIds >>
          ELSE /\ Len(procs) < MaxProcs
               /\ LET requestedVoice ==
                        IF call.voice # "" THEN call.voice ELSE sidecar.voicePath
                      w == [world EXCEPT !.s.healthy = FALSE,
                                         !.s.starting = TRUE,
                                         !.s.shutdownRequested = FALSE]
                      spawned == spawnSidecar(killProcess(w))
                  IN /\ setWorld(spawned)
                     /\ startCalls' =
                          [startCalls EXCEPT
                             ![c] = [pc |-> "wait1", voice |-> requestedVoice,
                                     proc |-> spawned.s.process]]
    /\ UNCHANGED << stopped, startBudget >>
    /\ UNCHANGED notSidecar

\* await waitForReady(proc, 120) settles, and start goes on
ReadySettles ==
  \E c \in DOMAIN startCalls, isReady \in BOOLEAN :
    /\ startCalls[c].pc \in {"wait1", "wait2"}
    /\ isReady => procs[startCalls[c].proc].st = "alive"
    /\ LET call == startCalls[c]
           w == [world EXCEPT !.s.healthy = isReady]
       IN IF ~isReady /\ call.pc = "wait1"
             /\ call.voice # "" /\ call.voice # FALLBACK_VOICE
          THEN /\ Len(procs) < MaxProcs
               /\ LET spawned == spawnSidecar(killProcess(w))
                  IN /\ setWorld(spawned)
                     /\ startCalls' =
                          [startCalls EXCEPT
                             ![c] = [pc |-> "wait2", voice |-> call.voice,
                                     proc |-> spawned.s.process]]
          ELSE IF isReady
          THEN /\ setWorld(
                    [w EXCEPT
                       !.s.voicePath =
                          IF call.pc = "wait2" THEN FALLBACK_VOICE ELSE call.voice,
                       !.s.status = "running", !.s.restartCount = 0,
                       !.s.failureCount = 0,
                       !.s.healthTimer = IF @ = "none" THEN "start" ELSE @,
                       !.s.starting = FALSE,
                       !.ps[call.proc].onExit = TRUE])
               /\ startCalls' = [startCalls EXCEPT ![c].pc = "done"]
          ELSE /\ setWorld([killProcess(w) EXCEPT !.s.starting = FALSE])
               /\ startCalls' = [startCalls EXCEPT ![c].pc = "done"]
    /\ UNCHANGED << stopped, startBudget >>
    /\ UNCHANGED notSidecar

\* a process exits, on its own or after SIGTERM; start's 'exit' listener runs
\* if start attached it
ProcExit ==
  \E p \in DOMAIN procs :
    /\ procs[p].st \in {"alive", "killed"}
    /\ LET w == [world EXCEPT !.ps[p].st = "exited"]
       IN IF procs[p].onExit
          THEN /\ ~sidecar.shutdownRequested => timerIds < MaxTimers
               /\ setWorld(scheduleRestart(
                 [w EXCEPT !.s.process = 0, !.s.healthy = FALSE,
                           !.s.status = "stopped"]))
          ELSE setWorld(w)
    /\ UNCHANGED << startCalls, stopped, startBudget >>
    /\ UNCHANGED notSidecar

\* the health interval fires and its check settles
HealthTick ==
  \E ok \in BOOLEAN :
    /\ sidecar.healthTimer # "none"
    /\ sidecar.status = "running"
    /\ answers(ok)
    /\ LET w == [world EXCEPT !.s.healthy = ok]
       IN IF ~ok /\ ~sidecar.shutdownRequested
          THEN LET f == [w EXCEPT !.s.failureCount = @ + 1]
               IN IF f.s.failureCount >= FailureLimit
                  THEN /\ timerIds < MaxTimers
                       /\ setWorld(scheduleRestart(
                         IF sidecar.healthTimer = "adopt"
                         THEN [f EXCEPT !.s.adopted = FALSE] ELSE f))
                  ELSE setWorld(f)
          ELSE IF ok THEN setWorld([w EXCEPT !.s.failureCount = 0])
          ELSE setWorld(w)
    /\ UNCHANGED << startCalls, stopped, startBudget >>
    /\ UNCHANGED notSidecar

\* a timeout of scheduleRestart fires and calls start(state.voicePath)
RestartFires ==
  \E t \in restartTimers :
    /\ restartTimers' = restartTimers \ {t}
    /\ sidecar' = [sidecar EXCEPT !.restartTimer = 0, !.adopted = FALSE]
    /\ startCalls' = startBegins(sidecar', sidecar.voicePath)
    /\ UNCHANGED << procs, timerIds, stopped, startBudget >>
    /\ UNCHANGED notSidecar

\* the user calls stop()
stop ==
  /\ LET w == [world EXCEPT
                 !.s.shutdownRequested = TRUE,
                 !.s.healthTimer = "none",
                 !.s.restartTimer = 0,
                 !.ts = {t \in @ : t.id # sidecar.restartTimer}]
     IN setWorld(killProcess(w))
  /\ stopped' = TRUE
  /\ UNCHANGED << startCalls, startBudget >>
  /\ UNCHANGED notSidecar

NextSidecar ==
  \/ start
  \/ AdoptSettles
  \/ ReadySettles
  \/ ProcExit
  \/ HealthTick
  \/ RestartFires
  \/ stop

InitManaged ==
  /\ InitDL("hf") /\ fs = fsOf("hf", {}, {})
  /\ InitLoad
  /\ InitStream
  /\ InitWorker
  /\ InitVoice
  /\ InitSplit
  /\ InitWav
  /\ InitProp
  /\ InitReload
  /\ sidecar = [process |-> 0, status |-> "stopped", healthy |-> FALSE,
                starting |-> FALSE, shutdownRequested |-> FALSE,
                restartCount |-> 0, failureCount |-> 0, restartTimer |-> 0,
                healthTimer |-> "none", adopted |-> FALSE, voicePath |-> ""]
  /\ procs = << >>
  /\ restartTimers = {}
  /\ timerIds = 0
  /\ startCalls = << >>
  /\ stopped = FALSE
  /\ startBudget = MaxStarts
  /\ InitCache
  /\ InitWatch
  /\ InitStatic

SpecSidecar == InitManaged /\ [][NextSidecar]_vars

(***************************************************************************)
(* The sidecar's speech cache and its single-flight synthesis              *)
(***************************************************************************)

MaxSynth == 3

TTS_CACHE_MAX_BYTES == 10 * MB

\* lengths of the WAV buffers the sidecar returns
WavLens == {6 * MB, 11 * MB}

\* (voiceId || 'default') + ':' + text
ttsCacheKey(sentence, voiceId) ==
  << IF voiceId = "" THEN "default" ELSE voiceId, sentence >>

CacheKeys == {ttsCacheKey(t, v) : t \in {"a"}, v \in {"", "default", "alba"}}

RECURSIVE bytesOf(_)
bytesOf(cache) ==
  IF cache = << >> THEN 0 ELSE Head(cache).len + bytesOf(Tail(cache))

has(cache, key) == \E i \in 1..Len(cache) : cache[i].key = key

get(cache, key) == CHOOSE e \in {cache[i] : i \in 1..Len(cache)} : e.key = key

\* Map.prototype.delete: the other entries keep their order
delete(cache, key) == SelectSeq(cache, LAMBDA e : e.key # key)

\* the while loop of cachePut: the oldest entries go until buf fits or the
\* cache is empty
RECURSIVE evict(_, _)
evict(c, len) ==
  IF c.bytes + len > TTS_CACHE_MAX_BYTES /\ Len(c.cache) > 0
  THEN evict([cache |-> Tail(c.cache), bytes |-> c.bytes - Head(c.cache).len],
             len)
  ELSE c

cachePut(c, key, len) ==
  LET without == IF has(c.cache, key)
                 THEN [cache |-> delete(c.cache, key),
                       bytes |-> c.bytes - get(c.cache, key).len]
                 ELSE c
      room == evict(without, len)
  IN [cache |-> Append(room.cache, [key |-> key, len |-> len]),
      bytes |-> room.bytes + len]

\* a hit makes the key the most recently used
touch(cache, key) == Append(delete(cache, key), get(cache, key))

\* the in-flight map with the key left in
keepInflight(m, key) == m

\* finally { ttsInflight.delete(cacheKey) }
deleteInflight(m, key) == SelectSeq(m, LAMBDA e : e.key # key)

\* synthesize(text, voiceId) up to its await: the cached buffer, the promise
\* in flight for the key, or a synthesis of its own
Synthesize ==
  \E key \in CacheKeys :
    /\ synthBudget > 0
    /\ synthBudget' = synthBudget - 1
    /\ IF has(ttsCache, key)
       THEN /\ ttsCache' = touch(ttsCache, key)
            /\ synCalls' = Append(synCalls,
                 [key |-> key, from |-> 0, st |-> "resolved",
                  len |-> get(ttsCache, key).len])
            /\ UNCHANGED << ttsInflight, synths >>
       ELSE IF has(ttsInflight, key)
       THEN /\ synCalls' = Append(synCalls,
                 [key |-> key, from |-> get(ttsInflight, key).synth,
                  st |-> "pending", len |-> 0])
            /\ UNCHANGED << ttsCache, ttsInflight, synths >>
       ELSE /\ synths' = Append(synths,
                 [key |-> key, by |-> "call", st |-> "running", len |-> 0])
            /\ ttsInflight' = Append(ttsInflight,
                 [key |-> key, synth |-> Len(synths) + 1])
            /\ synCalls' = Append(synCalls,
                 [key |-> key, from |-> Len(synths) + 1, st |-> "pending",
                  len |-> 0])
            /\ UNCHANGED ttsCache
    /\ UNCHANGED ttsCacheBytes
    /\ UNCHANGED notCache

\* synthesizeStream reaches a sentence: the cached buffer, or a synthesis
StreamNext ==
  \E key \in CacheKeys :
    /\ synthBudget > 0
    /\ synthBudget' = synthBudget - 1
    /\ IF has(ttsCache, key)
       THEN /\ ttsCache' = touch(ttsCache, key)
            /\ UNCHANGED synths
       ELSE /\ synths' = Append(synths,
                 [key |-> key, by |-> "stream", st |-> "running", len |-> 0])
            /\ UNCHANGED ttsCache
    /\ UNCHANGED << ttsCacheBytes, ttsInflight, synCalls >>
    /\ UNCHANGED notCache

\* synthesizeAny settles.  With a buffer: cachePut.  For a synthesis of
\* synthesize, the promise settles, the calls that await it settle with it,
\* and the caller that began it deletes the in-flight entry before any
\* other call can run.
SynthesisSettles ==
  \E n \in DOMAIN synths, ok \in BOOLEAN, len \in WavLens :
    /\ synths[n].st = "running"
    /\ ok \/ len = 6 * MB
    /\ LET key == synths[n].key
           put == cachePut([cache |-> ttsCache, bytes |-> ttsCacheBytes],
                           key, len)
       IN /\ synths' = [synths EXCEPT
                          ![n].st = IF ok THEN "ok" ELSE "failed",
                          ![n].len = IF ok THEN len ELSE 0]
          /\ IF ok
             THEN ttsCache' = put.cache /\ ttsCacheBytes' = put.bytes
             ELSE UNCHANGED << ttsCache, ttsCacheBytes >>
          /\ IF synths[n].by = "call"
             THEN /\ ttsInflight' = deleteInflight(ttsInflight, key)
                  /\ synCalls' =
                       [c \in DOMAIN synCalls |->
                          IF synCalls[c].from = n
                          THEN [synCalls[c] EXCEPT
                                  !.st = IF ok THEN "resolved" ELSE "rejected",
                                  !.len = IF ok THEN len ELSE 0]
                          ELSE synCalls[c]]
             ELSE UNCHANGED << ttsInflight, synCalls >>
    /\ UNCHANGED synthBudget
    /\ UNCHANGED notCache

NextCache ==
  \/ Synthesize
  \/ StreamNext
  \/ SynthesisSettles

InitSpeaking ==
  /\ InitDL("hf") /\ fs = fsOf("hf", {}, {})
  /\ InitLoad
  /\ InitStream
  /\ InitWorker
  /\ InitVoice
  /\ InitSplit
  /\ InitWav
  /\ InitProp
  /\ InitReload
  /\ InitSidecar
  /\ ttsCache = << >>
  /\ ttsCacheBytes = 0
  /\ ttsInflight = << >>
  /\ synths = << >>
  /\ synCalls = << >>
  /\ synthBudget = MaxSynth
  /\ InitWatch
  /\ InitStatic

SpecCache == InitSpeaking /\ [][NextCache]_vars

(***************************************************************************)
(* The file watcher of the hot reload                                      *)
(***************************************************************************)

MaxChanges == 4

WATCH_DEBOUNCE == 300

\* the files startServer watches, and one it does not
WatchedFiles == {"middleware.js", "config.js"}
DirFiles == WatchedFiles \cup {"server.js"}

\* fs.watch reports a change of a file of the directory: onFileChange runs
\* for a watched file, clears the timeout that is pending and sets a new one
FileChange ==
  \E filename \in DirFiles :
    /\ changeBudget > 0
    /\ changeBudget' = changeBudget - 1
    /\ IF filename \in WatchedFiles
       THEN /\ pendingReload' = TRUE
            /\ reloadTimer' = WATCH_DEBOUNCE
       ELSE UNCHANGED << pendingReload, reloadTimer >>
    /\ UNCHANGED callbacks
    /\ UNCHANGED notWatch

\* the timeout fires: with pendingReload set, reloadCallback is called and
\* awaited; reloadMiddleware awaits drain()
DebounceFires ==
  /\ reloadTimer # 0
  /\ reloadTimer' = 0
  /\ IF pendingReload
     THEN /\ pendingReload' = FALSE
          /\ callbacks' = Append(callbacks, "drain")
     ELSE UNCHANGED << pendingReload, callbacks >>
  /\ UNCHANGED changeBudget
  /\ UNCHANGED notWatch

\* drain() returns: the module is loaded anew and newInit() is awaited; or
\* drain() throws its timeout and the callback ends
Drained ==
  \E c \in DOMAIN callbacks, timeout \in BOOLEAN :
    /\ callbacks[c] = "drain"
    /\ callbacks' = [callbacks EXCEPT ![c] = IF timeout THEN "done" ELSE "init"]
    /\ UNCHANGED << reloadTimer, pendingReload, changeBudget >>
    /\ UNCHANGED notWatch

\* newInit() settles and reloadMiddleware returns or throws
Initialized ==
  \E c \in DOMAIN callbacks :
    /\ callbacks[c] = "init"
    /\ callbacks' = [callbacks EXCEPT ![c] = "done"]
    /\ UNCHANGED << reloadTimer, pendingReload, changeBudget >>
    /\ UNCHANGED notWatch

NextWatch ==
  \/ FileChange
  \/ DebounceFires
  \/ Drained
  \/ Initialized

InitWatching ==
  /\ InitDL("hf") /\ fs = fsOf("hf", {}, {})
  /\ InitLoad
  /\ InitStream
  /\ InitWorker
  /\ InitVoice
  /\ InitSplit
  /\ InitWav
  /\ InitProp
  /\ InitReload
  /\ InitSidecar
  /\ InitCache
  /\ reloadTimer = 0
  /\ pendingReload = FALSE
  /\ callbacks = << >>
  /\ changeBudget = MaxChanges
  /\ InitStatic

SpecWatch == InitWatching /\ [][NextWatch]_vars

(***************************************************************************)
(* serveStatic                                                             *)
(***************************************************************************)

MaxSegments == 3

\* A path is the sequence of its segments and a segment a sequence of
\* characters.  The root is /s/a; beside it lie the directory /s/a-p and
\* the file /s/k.
Slash == "/"
Up == << ".", "." >>
UpEncoded == << "%", "2", "e", "%", "2", "e" >>
root == << << "s" >>, << "a" >> >>
DiskFiles == { << << "s" >>, << "a" >>, << "f" >> >>,
               << << "s" >>, << "a", "-", "p" >>, << "k" >> >>,
               << << "s" >>, << "k" >> >> }

\* the segments a request path is made of
RawSegments == {Up, UpEncoded, << "f" >>, << "a", "-", "p" >>, << "k" >>}

RequestPaths == UNION {[1..n -> RawSegments] : n \in 0..MaxSegments}

\* decodeURIComponent, on a segment: %2e is '.'
RECURSIVE decodeURIComponent(_)
decodeURIComponent(seg) ==
  IF Len(seg) >= 3 /\ SubSeq(seg, 1, 3) = << "%", "2", "e" >>
  THEN << "." >> \o decodeURIComponent(SubSeq(seg, 4, Len(seg)))
  ELSE IF seg = << >> THEN << >>
  ELSE << Head(seg) >> \o decodeURIComponent(Tail(seg))

\* path.normalize: '..' removes the segment before it, if there is one
RECURSIVE normalize(_, _)
normalize(done, rest) ==
  IF rest = << >> THEN done
  ELSE IF Head(rest) = Up
  THEN normalize(IF done = << >> THEN done ELSE SubSeq(done, 1, Len(done) - 1),
                 Tail(rest))
  ELSE normalize(Append(done, Head(rest)), Tail(rest))

\* path.join(a, b)
join(a, b) == normalize(<< >>, a \o b)

\* the path as the string it is
RECURSIVE toString(_)
toString(p) ==
  IF p = << >> THEN << >> ELSE << Slash >> \o Head(p) \o toString(Tail(p))

\* String.prototype.startsWith
startsWith(s, prefix) ==
  Len(s) >= Len(prefix) /\ SubSeq(s, 1, Len(prefix)) = prefix

\* the handler up to fs.stat: 403 if filePath does not start with root
StaticRequest ==
  \E p \in RequestPaths :
    /\ staticPc # "stat"
    /\ urlPath' = p
    /\ filePath' = join(root, [i \in 1..Len(p) |-> decodeURIComponent(p[i])])
    /\ staticPc' = IF startsWith(toString(filePath'), toString(root))
                   THEN "stat" ELSE "forbidden"
    /\ UNCHANGED notStatic

\* the callback of fs.stat: next() unless filePath is a file, else the file
\* is piped to the response
StatReturns ==
  /\ staticPc = "stat"
  /\ staticPc' = IF filePath \in DiskFiles THEN "served" ELSE "next"
  /\ UNCHANGED << urlPath, filePath >>
  /\ UNCHANGED notStatic

NextStatic ==
  \/ StaticRequest
  \/ StatReturns

InitStaticServing ==
  /\ InitDL("hf") /\ fs = fsOf("hf", {}, {})
  /\ InitLoad
  /\ InitStream
  /\ InitWorker
  /\ InitVoice
  /\ InitSplit
  /\ InitWav
  /\ InitProp
  /\ InitReload
  /\ InitSidecar
  /\ InitCache
  /\ InitWatch
  /\ urlPath = << >> /\ filePath = << >> /\ staticPc = "idle"

SpecStatic == InitStaticServing /\ [][NextStatic]_vars

(***************************************************************************)
(* Properties of the asset manager and of the engine load                  *)
(***************************************************************************)

\* C1 (as stated): while a later ensure call waits on a running one, at most
\* one HTTPS GET is issued for the file being downloaded.
C1_OneGetPerFile ==
  (/\ pc = "download"
   /\ \E c \in 1..Len(calls) :
        calls[c].role = "waiter" /\ calls[c].lock = calls[owner].lock)
  => dl.gets <= 1

\* C1 (amended): an ensure call made while an earlier one for the same set is
\* running starts no download of its own: at most one call runs the download
\* body at a time, the later call holds the lock promise of an earlier
\* running call and settles as that call did, and the running call calls
\* downloadFile at most once per file (a call which may issue several GETs:
\* redirect follow-ups and retries).
C1_SingleFlight ==
  /\ Cardinality({ c \in 1..Len(calls) :
                     calls[c].role = "owner" /\ calls[c].state = "pending" }) <= 1
  /\ \A c \in 1..Len(calls) :
       calls[c].role = "waiter" =>
         \E o \in 1..(c - 1) :
           /\ calls[o].role = "owner"
           /\ calls[o].lock = calls[c].lock
           /\ calls[c].state \in {"pending", calls[o].state}
  /\ \A n \in Names(variant) : started[n] <= 1

\* a later call has settled with the success of the call that downloaded
C1_Witness ==
  /\ \E c \in 1..Len(calls) : calls[c].role = "waiter" /\ calls[c].state = "ok"
  /\ \E n \in Names(variant) : status[n] = "completed"

\* C2: an ensure call of the six TTS assets completes successfully only if
\* every asset then exists with at least its minimum size.
C2_SuccessOnlyIfAllIntact ==
  \A c \in 1..Len(calls) :
    (/\ variant = "hf"
     /\ pc = "none"
     /\ calls[c].role = "owner"
     /\ calls[c].state = "ok"
     /\ \A d \in (c + 1)..Len(calls) : calls[d].role = "waiter")
    => \A i \in 1..Len(TTS_FILES) : Intact(fs, i)

\* C3: an asset whose download is reported as completed has at least its
\* minimum size at its path.
C3_CompletedMeetsMinimum ==
  variant = "hf" =>
    \A i \in 1..Len(TTS_FILES) :
      status[TTS_FILES[i].name] = "completed" => Intact(fs, i)

\* C4: when an ensure call of the six TTS assets has resolved, a download was
\* attempted for every asset that failed the integrity predicate when the
\* call began, whichever subset of the six that was.
C4_FailingAssetsRedownloaded ==
  \A c \in 1..Len(calls) :
    (/\ variant = "hf"
     /\ pc = "none"
     /\ calls[c].role = "owner"
     /\ calls[c].state = "ok"
     /\ \A d \in (c + 1)..Len(calls) : calls[d].role = "waiter")
    => \A i \in failingAtStart : started[TTS_FILES[i].name] = 1

\* C5: while a download is under way and has not finished successfully, its
\* final path holds no file: the path is absent or completely downloaded,
\* never partially written.
C5_FinalPathNeverPartial ==
  (pc = "download" /\ dl.phase # "resolved") => fs[dest] = Absent

\* C6: once an ensure call has completed successfully, a later ensure call
\* for the same set makes no download request.
C6_SecondCallNoRequest ==
  (okBefore /\ pc # "none") => \A n \in Names(variant) : started[n] = 0

C9_ThreeWaits ==
  (pc = "download" /\ dl.phase = "rejected")
  => dl.waits = << 1000, 2000, 4000 >>

\* C10: at most one loadModels invocation is in progress at any time, and a
\* caller of ensureLoaded that arrives while a load is in progress is given
\* that load's promise and settles as that load does.
C10_LoadSingleFlight ==
  /\ Cardinality(loading) <= 1
  /\ \A c \in 1..Len(loadCalls) :
       loadCalls[c].during # {} =>
         /\ loadCalls[c].during = {loadCalls[c].promise}
         /\ loadCalls[c].state \in {"pending", loads[loadCalls[c].promise]}

\* two callers of one load, the later arrived while it was in progress, have
\* both settled with that load's error
C10_Witness ==
  \E c, d \in 1..Len(loadCalls) :
    /\ c < d
    /\ loadCalls[d].during # {}
    /\ loadCalls[c].promise = loadCalls[d].promise
    /\ loadCalls[c].state \in Errors
    /\ loadCalls[d].state = loadCalls[c].state

\* C11: the engine load goes Loading -> Ready | Failed(err).  A load that
\* fails leaves the engine not ready, its error recorded and no promise kept;
\* a caller is never handed a load that had already failed when it called (it
\* starts a new one); and once the engine is ready no load is started.
C11_LoadLifecycle ==
  /\ [](\A c \in 1..Len(loadCalls) :
          (/\ loadCalls[c].promise # NoPromise
           /\ loadCalls[c].during = {}
           /\ loads[loadCalls[c].promise] \in Errors)
          => \A d \in 1..(c - 1) : loadCalls[d].promise # loadCalls[c].promise)
  /\ [](ready => loading = {})
  /\ [][/\ ready => (Len(loads') = Len(loads) /\ ready')
        /\ \A p \in 1..Len(loads) :
             (loads[p] = "pending" /\ loads'[p] \in Errors)
             => (~ ready' /\ loadError' = loads'[p] /\ loadPromise' = NoPromise)]_vars

\* after a failed load a later caller has started a second load, which made
\* the engine ready; the error of the first is still recorded
C11_Witness ==
  /\ ready
  /\ loadError \in Errors
  /\ \E c \in 1..Len(loadCalls) :
       /\ loadCalls[c].during = {}
       /\ loadCalls[c].promise = 2
       /\ loadCalls[c].state = "ok"

\* C12: a streaming response during which synthesis failed, after zero or
\* more chunks, does not end as an ordinary end of stream: its consumer can
\* tell it from a complete one.
C12_FailureIsTerminalError ==
  \A r \in 1..Len(responses) :
    responses[r].failed => responses[r].ending # "end"

\* C13: at most one synthesis is active in the worker at a time.
C13_OneSynthesisAtATime ==
  Cardinality({ g \in 1..Len(syn) : syn[g].pc # "done" }) <= 1

\* C14: once the loop condition of a synthesis has been evaluated after a
\* 'stop' that arrived while it ran, the synthesis generates no further frame
\* and emits no further chunk: its loop has ended.
C14_StopObservedAtBoundary ==
  \A g \in 1..Len(syn) :
    syn[g].stop = "boundary" => syn[g].pc \in {"after", "done"}

\* C15: when the AR loop of a synthesis that was not stopped has ended, every
\* frame it generated is in exactly one emitted chunk.
C15_RemainderEmitted ==
  \A g \in 1..Len(syn) :
    (syn[g].pc \in {"after", "done"} /\ syn[g].stop = "no")
    => \A f \in 1..syn[g].step :
         Cardinality({ k \in 1..Len(syn[g].chunks) :
                         syn[g].chunks[k].first <= f /\ f <= syn[g].chunks[k].last }) = 1

\* C16: the state bundle given to every backbone run of a synthesis holds
\* exactly one tensor per state input the backbone declares, of the dtype
\* declared for it.
C16_StateBundleComplete ==
  \A g \in 1..Len(syn) :
    Running(g) =>
      /\ DOMAIN syn[g].provided = StateInputs
      /\ \A i \in StateInputs : syn[g].provided[i] = input_dtype(i)

\* C17: the chunks of a synthesis are contiguous frame ranges in audio-time
\* order, starting at the first frame and covering every frame decoded so
\* far, and a chunk once emitted stays where it is; the chunks of a streamed
\* text are those of its sentences in sentence order.
C17_ChunksInOrder ==
  /\ [](/\ \A g \in 1..Len(syn) :
             LET c == syn[g].chunks
             IN  /\ \A k \in 1..Len(c) :
                       /\ c[k].first <= c[k].last
                       /\ c[k].first = (IF k = 1 THEN 1 ELSE c[k - 1].last + 1)
                 /\ (IF Len(c) = 0 THEN 0 ELSE c[Len(c)].last)
                      = syn[g].step - syn[g].latents
        /\ http.written = [k \in 1..Len(http.written) |-> k]
        /\ \A r \in 1..Len(responses) :
             responses[r].chunks = [k \in 1..Len(responses[r].chunks) |-> k])
  /\ [][/\ \A g \in 1..Len(syn) :
             SubSeq(syn'[g].chunks, 1, Len(syn[g].chunks)) = syn[g].chunks
        /\ http'.pc # "idle" =>
             SubSeq(http'.written, 1, Len(http.written)) = http.written]_vars

\* a synthesis has ended after emitting three chunks, and a streamed text of
\* three sentences has been delivered whole
C17_Witness ==
  /\ \E g \in 1..Len(syn) : syn[g].pc = "done" /\ Len(syn[g].chunks) = 3
  /\ \E r \in 1..Len(responses) :
       ~ responses[r].failed /\ responses[r].chunks = << 1, 2, 3 >>

\* C18: the voice-embedding cache never holds more than 16 entries.
C18_CacheBounded == Cardinality(voiceCache) <= 16

\* C19: the voice encoder is invoked at most once for each reference-audio
\* file, whatever the sequence or interleaving of get-embedding calls.
C19_EncodedOncePerFile ==
  \A wavPath \in WavPaths : encoderRuns[wavPath] <= 1

\* a text without its whitespace
RECURSIVE noSpace(_)
noSpace(t) ==
  IF t = << >> THEN t
  ELSE IF isSpace(Head(t)) THEN noSpace(Tail(t))
  ELSE << Head(t) >> \o noSpace(Tail(t))

\* the sentences ss occur one after the other, without overlap, in t from
\* position i on (whitespace already removed from t)
RECURSIVE occurInOrder(_, _, _)
occurInOrder(ss, t, i) ==
  IF ss = << >> THEN TRUE
  ELSE LET w == noSpace(Head(ss))
           at == {j \in i..(Len(t) - Len(w) + 1) :
                    SubSeq(t, j, j + Len(w) - 1) = w}
       IN  /\ at # {}
           /\ occurInOrder(Tail(ss), t, (CHOOSE j \in at : \A k \in at : j <= k)
                                         + Len(w))

\* C20: every sentence that splitSentences returns is non-empty after
\* trimming, and the sentences occur in order as substrings of the text,
\* whitespace ignored.
C20_SentencesNonEmptyInOrder ==
  splitBy # "none" =>
    /\ \A k \in 1..Len(sentences) : trim(sentences[k]) # << >>
    /\ occurInOrder(sentences, noSpace(text), 1)

\* C21: a synthesis request whose text is empty, or empty after trimming,
\* is rejected before the tokenizer or any model session is invoked.
C21_EmptyTextRejected ==
  \A g \in 1..Len(syn) :
    trim(syn[g].text) = << >> =>
      /\ syn[g].encoded = << >>
      /\ syn[g].pc \in {"rejected"}

\* C22: decoding the 16-bit WAV that encodes x returns as many samples as x
\* has, each within 1/32767 of clip(x, -1, 1).
C22_WavRoundTrip ==
  wavPc = "decoded" =>
    /\ Len(decoded) = Len(samples)
    /\ \A i \in 1..Len(samples) :
         LET d == clip(samples[i]) - decoded[i]
         IN  (IF d < 0 THEN -d ELSE d) * 32767 <= One

\* C23: the state_i kept for the next backbone run is the out_state_i of the
\* run before, with its dims, of the dtype declared for state_i: a float32
\* output for an int64 input is rounded to nearest, an int64 output for a
\* float32 input is widened, any other output is kept as it is.
C23_StatePropagated ==
  propBy # "none" =>
    /\ nextState.type = input_dtype(slot)
    /\ nextState.dims = outState.dims
    /\ DOMAIN nextState.data = DOMAIN outState.data
    /\ \A k \in DOMAIN outState.data :
         LET out == outState.data[k]
             nxt == nextState.data[k]
         IN  IF outState.type = input_dtype(slot) THEN nxt = out
             ELSE IF outState.type = "float32"
             THEN 10 * nxt - out <= 5 /\ out - 10 * nxt <= 5
             ELSE nxt = 10 * out

\* C24: a chunk is emitted exactly when the latents accumulated since the
\* last emission reach 12 or EOS is signalled, and the accumulator is then
\* cleared: the frames not yet in a chunk are the accumulated latents, fewer
\* than 12; every chunk has 12 frames or ends at the EOS frame; and a
\* sentence of exactly 12 frames yields one chunk and no remainder.
C24_ChunkWhenDue ==
  \A g \in 1..Len(syn) :
    LET y == syn[g]
        covered == IF y.chunks = << >> THEN 0 ELSE y.chunks[Len(y.chunks)].last
        size(k) == y.chunks[k].last - y.chunks[k].first + 1
    IN  /\ y.latents = y.step - covered
        /\ y.latents < DecodeEvery
        /\ \A k \in 1..Len(y.chunks) :
             /\ size(k) >= 1 /\ size(k) <= DecodeEvery
             /\ size(k) = DecodeEvery \/ y.chunks[k].last = y.eosAt
        /\ (y.eosAt > 0 /\ y.step = y.eosAt) => y.latents = 0
        /\ (y.eosAt = DecodeEvery /\ y.step = DecodeEvery) =>
             y.chunks = << [first |-> 1, last |-> DecodeEvery] >>

C24_Witness ==
  \E g \in 1..Len(syn) :
    /\ syn[g].eosAt = DecodeEvery
    /\ syn[g].pc = "done"
    /\ syn[g].chunks = << [first |-> 1, last |-> DecodeEvery] >>

\* C25: when EOS is signalled at step 0, the synthesis has emitted a chunk,
\* which holds the one accumulated latent, by the time the step is over.
C25_EosAtStepZeroEmits ==
  \A g \in 1..Len(syn) :
    (syn[g].eosAt = 1 /\ syn[g].step >= 1) =>
      /\ syn[g].chunks = << [first |-> 1, last |-> 1] >>
      /\ syn[g].pc \in {"after", "done"}

C25_Witness ==
  \E g \in 1..Len(syn) :
    /\ syn[g].eosAt = 1
    /\ syn[g].step = 1
    /\ syn[g].pc = "done"
    /\ Len(syn[g].chunks) = 1

\* C26: a synthesis takes at most MAX_FRAMES backbone AR steps, each with
\* MAX_LSD flow runs, takes no step after the one that signals EOS, and once
\* in the AR loop it leaves it.
C26_BoundedSteps ==
  /\ [](\A g \in 1..Len(syn) :
          /\ syn[g].step <= MAX_FRAMES
          /\ syn[g].flowRuns = MAX_LSD * syn[g].step
          /\ syn[g].eosAt > 0 => syn[g].step <= syn[g].eosAt
          /\ (syn[g].eosAt > 0 /\ syn[g].step = syn[g].eosAt) => syn[g].pc # "loop")
  /\ ((Len(syn) >= 1 /\ syn[1].pc = "loop")
        ~> (Len(syn) >= 1 /\ syn[1].pc \in {"after", "done"}))

C26_Witness ==
  \E g \in 1..Len(syn) :
    /\ syn[g].eosAt = 0
    /\ syn[g].step = MAX_FRAMES
    /\ syn[g].pc = "done"

\* C27: every ensure call eventually settles, whatever the network does: an
\* attempt the server does not answer, or whose body stalls, is timed out.
C27_EveryCallSettles ==
  \A c \in 1..MaxCalls :
    (Len(calls) >= c /\ calls[c].state = "pending")
      ~> (Len(calls) >= c /\ calls[c].state # "pending")

\* C28: a write error on the destination aborts the download of that asset:
\* the step on which the error occurs rejects the download, with its kind.
C28_DiskErrorAborts ==
  [][(dl.err # "disk" /\ dl'.err = "disk") => dl'.phase = "rejected"]_vars

\* C29: the split ends a sentence only at a terminal mark that is followed
\* by whitespace or by the end of the text: a text in which no terminal mark
\* is followed by whitespace ('a.b', as 'server.js') is one sentence.
C29_SplitOnlyBeforeWhitespace ==
  (/\ splitBy # "none"
   /\ \A i \in 1..(Len(text) - 1) : ~(isEnd(text[i]) /\ isSpace(text[i + 1])))
    => Len(sentences) <= 1

\* C30: the handler set changes only while no request is in flight, and no
\* request is accepted between the return of drain and the full
\* installation of the new handlers.
C30_HandlersChangeWhenQuiet ==
  [][/\ handlers' # handlers => inFlight = 0
     /\ inFlight' > inFlight => (reloadPc # "init" /\ installed(generation))]_vars

\* C31: after stop() and until the user calls start() again, no sidecar
\* process is alive and no restart is pending.
C31_StoppedStaysStopped ==
  stopped => /\ \A p \in DOMAIN procs : procs[p].st # "alive"
             /\ restartTimers = {}

\* C35: at most one restart of the sidecar is pending at any time.
C35_OneRestartPending == Cardinality(restartTimers) <= 1

\* C32: every generation the worker has finished was answered with its
\* terminal message: a generateSpeech call that has returned has posted
\* 'generation_complete'.
C32_FinishedIsAnswered ==
  \A g \in 1..Len(syn) : syn[g].pc = "done" => syn[g].complete

\* C33: the in-flight counter equals the number of requests whose response
\* has neither finished nor closed; so it is never negative, and it is 0
\* when no request is open.
C33_InFlightCountsOpen ==
  inFlight = Cardinality({r \in DOMAIN requests : requests[r].st = "open"})

\* a response has emitted both 'finish' and 'close' while another request
\* is open
C33_Witness ==
  \E r, q \in DOMAIN requests :
    /\ requests[r].events = 2
    /\ requests[q].st = "open"

\* C34: once a reload is over, every USE handler in the active set was
\* registered by the module as last loaded; none from before the reload is
\* left, so their number does not grow with the reloads.
C34_OnlyReloadedHandlers ==
  reloadPc = "idle" =>
    \A k \in 1..Len(handlers.use) : handlers.use[k] = generation

\* C36: ttsCacheBytes is the sum of the lengths of the cached buffers and
\* never exceeds TTS_CACHE_MAX_BYTES.
C36_CacheBytesBounded ==
  /\ ttsCacheBytes = bytesOf(ttsCache)
  /\ ttsCacheBytes <= TTS_CACHE_MAX_BYTES

\* C37: for every key at most one synthesis begun by synthesize runs, the
\* in-flight map holds exactly the keys of those that run, and every call
\* is pending while the synthesis it awaits runs and settled with that
\* synthesis's buffer or error afterwards; so after a failure nothing is in
\* flight or cached for the key.
C37_SingleFlight ==
  /\ \A m, n \in DOMAIN synths :
       (/\ synths[m].by = "call" /\ synths[n].by = "call"
        /\ synths[m].st = "running" /\ synths[n].st = "running"
        /\ synths[m].key = synths[n].key) => m = n
  /\ \A key \in CacheKeys :
       has(ttsInflight, key) <=>
         \E n \in DOMAIN synths :
           synths[n].key = key /\ synths[n].by = "call" /\ synths[n].st = "running"
  /\ \A c \in DOMAIN synCalls :
       synCalls[c].from # 0 =>
         LET s == synths[synCalls[c].from]
         IN /\ s.key = synCalls[c].key
            /\ synCalls[c].st = (CASE s.st = "running" -> "pending"
                                   [] s.st = "ok" -> "resolved"
                                   [] s.st = "failed" -> "rejected")
            /\ synCalls[c].len = s.len

\* two calls awaited one synthesis that failed, and a later call for the
\* key began a synthesis of its own
C37_Witness ==
  \E a, b, c \in DOMAIN synCalls :
    /\ a < b /\ b < c
    /\ synCalls[a].from = synCalls[b].from
    /\ synCalls[a].st = "rejected" /\ synCalls[b].st = "rejected"
    /\ synCalls[c].key = synCalls[a].key
    /\ synCalls[c].from > synCalls[a].from

\* C38: downloadLocks and downloadPromises hold the same keys; the key of an
\* asset set is locked exactly while an ensure call that downloads it is
\* active, from the call itself to the step that settles it; and a call that
\* finds no lock checks the files anew.
C38_LockWhileCallActive ==
  /\ [](/\ \A k \in Keys :
             (downloadLocks[k] # NoPromise) <=> (downloadPromises[k] # NoPromise)
        /\ \A k \in Keys :
             isDownloading(k) <=> (k = lockKey(variant) /\ owner # 0)
        /\ owner # 0 =>
             /\ calls[owner].state = "pending"
             /\ calls[owner].lock = downloadLocks[lockKey(variant)])
  /\ [][(owner = 0 /\ owner' # 0) =>
          (pc' = "checked" /\ exists' = checkExists(variant, fs))]_vars

\* a second ensure call holds the lock anew after a first one settled and
\* released it
C38_Witness ==
  /\ owner > 1
  /\ \E c \in 1..(owner - 1) :
       calls[c].role = "owner" /\ calls[c].state # "pending"
  /\ isDownloading(lockKey(variant))

\* C39: at most one reload callback is running at any time.
C39_OneReloadAtATime ==
  Cardinality({c \in DOMAIN callbacks : callbacks[c] # "done"}) <= 1

\* C40: a file that serveStatic reads or serves lies inside the root
\* directory, whatever the request path.
C40_ServedInsideRoot ==
  staticPc \in {"stat", "served"} =>
    (Len(filePath) >= Len(root) /\ SubSeq(filePath, 1, Len(root)) = root)

====
